---- MODULE Spec2Model ----
(***************************************************************************)
(* Token-feature extraction pipeline of ml-nerc: offset-tracked            *)
(* tokenization, span-to-BIO alignment, feature generation and the         *)
(* per-sentence output loop (code/features/*.py, code/extract-features.py).*)
(*                                                                         *)
(* Python strings are sequences of one-character strings; offsets are      *)
(* 0-based as in Python, so character i of s is s[i + 1].                  *)
(***************************************************************************)
EXTENDS Integers, Sequences, FiniteSets, TLC

VARIABLES
    txt,            \* tokenize: the sentence text
    wtoks,          \* tokenize: what word_tokenize(txt) returned
    tks,            \* tokenize: the list of (word, start, end) returned
    tpc,            \* tokenize: "call" before the call, "done" after it
    token,          \* get_tag: the (form, start, end) argument
    spans,          \* get_tag: the span list argument
    tag,            \* get_tag: the value returned
    gpc,            \* get_tag: "call" before the call, "done" after it
    ctok,           \* extract_character_features: the token t
    tokenFeatures,  \* extract_character_features: the features appended
    cpc,            \* extract_character_features: "call" / "done"
    fstr,           \* escaping: a feature string before emission
    escaped,        \* escaping: the string as written to the output
    unescaped,      \* escaping: what the consumer's inverse mapping gives back
    epc,            \* escaping: "call", "escaped", "done"
    lexfiles,       \* main: the lexicon and embedding files found at startup
    lexicon_data,   \* main: the resource bundle built by load_resources
    nread,          \* process_file: sentences of the input taken so far
    sid,            \* process_file: the id of the sentence taken last
    cur,            \* process_file: the sentence being written (id, entities,
                    \*   spans, tokens, features) and, per token handled so far,
                    \*   whether its line was written
    ti,             \* process_file: the loop index i over the tokens of cur
    out,            \* the lines written to the output, in order
    done,           \* the sentences whose block is complete, in order
    pc,             \* main: "sentence", "tokens", "failed", "complete", or
                    \*   "fatal" when load_resources raised
    ffiles,         \* extract_features: the lines of DrugBank.txt and HSDB.txt
    ftokens,        \* extract_features: the tokens argument
    fanswer,        \* extract_features: what nltk.pos_tag does for the sentence
    fbundle,        \* extract_features: the lexicon_data argument
    all_features,   \* extract_features: the list of feature lists returned
    fpc,            \* extract_features: "call" before the call, "done" after it
    legacy_globals, \* extract-features.py: the module-level lexicons and samples
    legacy_result,  \* extract-features.py: what its extract_features returned
    previous_result,\* extract-features.py: the result of the run before this one
    run,            \* extract-features.py: 1 in the first run, 2 in the second
    lpc,            \* extract-features.py: "call" before the call, "done" after it
    emb_token,      \* get_embedding_features: the token argument
    emb_map,        \* get_embedding_features: the embeddings argument
    emb_dimension,  \* get_embedding_features: the dimension argument
    emb_result,     \* get_embedding_features: the features returned, or that
                    \*   the call raised
    emb_pc,         \* get_embedding_features: "call" before the call, "done" after it
    align_text,     \* tagging of a sentence: the sentence text
    align_wt,       \* tagging of a sentence: what word_tokenize(text) returned
    align_spans,    \* tagging of a sentence: the span list of the sentence
    align_tokens,   \* tagging of a sentence: the tokens returned by tokenize
    align_tags,     \* tagging of a sentence: the tag of every token, in order
    align_pc,       \* tagging of a sentence: "call", "done"
    _drug_n_lexicon,        \* drug_n_features: the cached lexicon, or None
    _short_drug_n_lexicon,  \* drug_n_features: the cached short-entry subset, or None
    _drug_n_patterns,       \* drug_n_features: the cached compiled patterns, or None
    _prefix_index,          \* drug_n_features: entries by their first 3 characters, or None
    _suffix_index,          \* drug_n_features: entries by their last 3 characters, or None
    drug_calls,     \* load_drug_n_lexicon: the number of calls made so far
    drug_returned,  \* load_drug_n_lexicon: what the last call returned
    drug_token,     \* drug_n_features: the token argument of the last call
    drug_result,    \* drug_n_features: what the last call on a token returned
    drug_pc         \* drug_n_features: "load", "match" or "features", the last call

tokVars == <<txt, wtoks, tks, tpc>>
tagVars == <<token, spans, tag, gpc>>
charVars == <<ctok, tokenFeatures, cpc>>
escVars == <<fstr, escaped, unescaped, epc>>
pipeVars == <<lexfiles, lexicon_data, nread, sid, cur, ti, out, done, pc>>

featVars == <<ffiles, ftokens, fanswer, fbundle, all_features, fpc>>
legVars == <<legacy_globals, legacy_result, previous_result, run, lpc>>
embVars == <<emb_token, emb_map, emb_dimension, emb_result, emb_pc>>
alignVars == <<align_text, align_wt, align_spans, align_tokens, align_tags, align_pc>>
drugGlobals ==
    <<_drug_n_lexicon, _short_drug_n_lexicon, _drug_n_patterns, _prefix_index, _suffix_index>>
drugVars == <<drugGlobals, drug_calls, drug_returned, drug_token, drug_result, drug_pc>>

vars == <<tokVars, tagVars, charVars, escVars, pipeVars, featVars, legVars, embVars, alignVars, drugVars>>

----------------------------------------------------------------------------
(* Bounds of the model *)

MaxTextLen == 3     \* longest sentence text given to tokenize
MaxOff == 2         \* largest character offset of a token or span in get_tag
MaxSpans == 2       \* longest span list given to get_tag

----------------------------------------------------------------------------
(* Generic helpers *)

Min(S) == CHOOSE m \in S : \A o \in S : m <= o

SeqsUpTo(S, n) == UNION {[1..k -> S] : k \in 0..n}

\* whether t occurs in s at 0-based index i
OccursAt(s, t, i) == i >= 0 /\ i + Len(t) <= Len(s) /\ SubSeq(s, i + 1, i + Len(t)) = t

IsSubstring(t, s) == \E i \in 0..Len(s) : OccursAt(s, t, i)

----------------------------------------------------------------------------
(* tokenization.py: tokenize *)

\* str.find(t, start) for start >= 0: left-to-right scan, -1 when not found
RECURSIVE find_scan(_, _, _)
find_scan(s, t, start) ==
    IF start + Len(t) > Len(s) THEN -1
    ELSE IF SubSeq(s, start + 1, start + Len(t)) = t THEN start
    ELSE find_scan(s, t, start + 1)

find_from_zero(s, t, start) == find_scan(s, t, 0)

find(s, t, start) == find_scan(s, t, start)

\* The characters of the modelled sentences: a letter, a blank, a double
\* quote and an apostrophe.
TextAlphabet == {"a", " ", "\"", "'"}

Texts == SeqsUpTo(TextAlphabet, MaxTextLen)

\* The grave accent of the Treebank opening-quote token, written as a letter
\* that no modelled text contains.
Grave == "G"

\* The forms word_tokenize emits for one piece of the text: nothing for
\* blanks, the piece itself for a word, and for a double quote one of the
\* Treebank quote tokens (two grave accents or two apostrophes: NLTK
\* rewrites the double quote on output).
PieceForms(p) ==
    IF \A i \in DOMAIN p : p[i] = " " THEN {<<>>}
    ELSE IF p = <<"\"">> THEN {<< <<Grave, Grave>> >>, << <<"'", "'">> >>}
    ELSE IF \E i \in DOMAIN p : p[i] \in {" ", "\""} THEN {}
    ELSE {<<p>>}

\* word_tokenize(txt): an ordered sequence of non-empty forms, one per piece
\* of a left-to-right split of the text; where the annotator splits is its
\* own business, so every split is allowed.
RECURSIVE word_tokenize(_)
word_tokenize(s) ==
    IF s = <<>> THEN {<<>>}
    ELSE UNION {
           {f \o rest : f \in PieceForms(SubSeq(s, 1, k)),
                        rest \in word_tokenize(SubSeq(s, k + 1, Len(s)))}
           : k \in 1..Len(s)}

RECURSIVE tokenize_loop(_, _, _, _)
tokenize_loop(s, wt, offset, acc) ==
    IF wt = <<>> THEN acc
    ELSE LET t == Head(wt)
             off == find(s, t, offset)
         IN tokenize_loop(s, Tail(wt), off + Len(t),
                          Append(acc, <<t, off, off + Len(t) - 1>>))

tokenize(s, wt) == tokenize_loop(s, wt, 0, <<>>)

TokInit ==
    /\ txt \in Texts
    /\ wtoks \in word_tokenize(txt)
    /\ tks = <<>>
    /\ tpc = "call"

TokIdle == txt = <<>> /\ wtoks = <<>> /\ tks = <<>> /\ tpc = "idle"

Tokenize ==
    /\ tpc = "call"
    /\ tks' = tokenize(txt, wtoks)
    /\ tpc' = "done"
    /\ UNCHANGED <<txt, wtoks>>

----------------------------------------------------------------------------
(* tokenization.py: get_tag *)

EntityTypes == {"drug", "brand"}

\* (start, end, type) with start <= end
SpanSet == {sp \in (0..MaxOff) \X (0..MaxOff) \X EntityTypes : sp[1] <= sp[2]}

\* (form, start, end) with start <= end; get_tag does not read the form
TagTokens == {tk \in {<<"a">>} \X (0..MaxOff) \X (0..MaxOff) : tk[2] <= tk[3]}

get_tag_prefer_B(tk, sps) ==
    IF \E i \in DOMAIN sps : tk[2] = sps[i][1] /\ tk[3] <= sps[i][2]
    THEN "B-" \o sps[Min({i \in DOMAIN sps : tk[2] = sps[i][1] /\ tk[3] <= sps[i][2]})][3]
    ELSE IF \E i \in DOMAIN sps : tk[2] >= sps[i][1] /\ tk[3] <= sps[i][2]
    THEN "I-" \o sps[Min({i \in DOMAIN sps : tk[2] >= sps[i][1] /\ tk[3] <= sps[i][2]})][3]
    ELSE "O"

RECURSIVE get_tag_overlap(_, _)
get_tag_overlap(tk, sps) ==
    IF sps = <<>> THEN "O"
    ELSE LET start == tk[2]
             end == tk[3]
             spanS == Head(sps)[1]
             spanE == Head(sps)[2]
             spanT == Head(sps)[3]
         IN IF start = spanS THEN "B-" \o spanT
            ELSE IF start >= spanS /\ start <= spanE THEN "I-" \o spanT
            ELSE get_tag_overlap(tk, Tail(sps))

RECURSIVE get_tag(_, _)
get_tag(tk, sps) ==
    IF sps = <<>> THEN "O"
    ELSE LET start == tk[2]
             end == tk[3]
             spanS == Head(sps)[1]
             spanE == Head(sps)[2]
             spanT == Head(sps)[3]
         IN IF start = spanS /\ end <= spanE THEN "B-" \o spanT
            ELSE IF start >= spanS /\ end <= spanE THEN "I-" \o spanT
            ELSE get_tag(tk, Tail(sps))

TagInit ==
    /\ token \in TagTokens
    /\ spans \in SeqsUpTo(SpanSet, MaxSpans)
    /\ tag = ""
    /\ gpc = "call"

TagIdle == token = <<>> /\ spans = <<>> /\ tag = "" /\ gpc = "idle"

GetTag ==
    /\ gpc = "call"
    /\ tag' = get_tag(token, spans)
    /\ gpc' = "done"
    /\ UNCHANGED <<token, spans>>

----------------------------------------------------------------------------
(* Python string predicates used by the feature generators *)

UpperChars == {"A", "I", "V", "Z"}
LowerChars == {"a", "e", "i", "n", "s", "t", "v", "z"}
DigitChars == {"1"}

char_isupper(c) == c \in UpperChars
char_islower(c) == c \in LowerChars
char_isdigit(c) == c \in DigitChars
char_isalpha(c) == c \in UpperChars \cup LowerChars
char_isalnum(c) == char_isalpha(c) \/ char_isdigit(c)

lower_char(c) ==
    CASE c = "A" -> "a" [] c = "I" -> "i" [] c = "V" -> "v" [] c = "Z" -> "z" [] OTHER -> c

\* str.lower()
lower(s) == [i \in DOMAIN s |-> lower_char(s[i])]

\* str.isupper(): no lowercase character and at least one cased character
isupper(s) ==
    /\ \A i \in DOMAIN s : ~char_islower(s[i])
    /\ \E i \in DOMAIN s : char_isupper(s[i])

\* str.islower(): no uppercase character and at least one cased character
islower(s) ==
    /\ \A i \in DOMAIN s : ~char_isupper(s[i])
    /\ \E i \in DOMAIN s : char_islower(s[i])

\* str.istitle(): an uppercase character may only follow an uncased one, a
\* lowercase character only a cased one, and there is a cased character
RECURSIVE istitle_scan(_, _, _)
istitle_scan(s, previous_is_cased, cased) ==
    IF s = <<>> THEN cased
    ELSE IF char_isupper(Head(s))
         THEN IF previous_is_cased THEN FALSE ELSE istitle_scan(Tail(s), TRUE, TRUE)
    ELSE IF char_islower(Head(s))
         THEN IF ~previous_is_cased THEN FALSE ELSE istitle_scan(Tail(s), TRUE, TRUE)
    ELSE istitle_scan(Tail(s), FALSE, cased)

istitle(s) == istitle_scan(s, FALSE, FALSE)

\* a feature string "name=value", and a bare flag such as "BoS"
Feat(name, value) == [name |-> name, eq |-> TRUE, value |-> value]
Flag(name) == [name |-> name, eq |-> FALSE, value |-> <<>>]
True == <<"true">>

----------------------------------------------------------------------------
(* feature_extraction.py: character-level generator *)

casing(tk) ==
    IF isupper(tk) THEN <<"ALLCAPS">>
    ELSE IF istitle(tk) THEN <<"TITLE">>
    ELSE IF islower(tk) THEN <<"LOWER">>
    ELSE IF \E i \in DOMAIN tk : char_isupper(tk[i]) THEN <<"MIXED">>
    ELSE <<"NOCASE">>

NgramCap == 5

char_ngrams(tk, n) ==
    IF Len(tk) < n THEN <<lower(tk)>>
    ELSE LET cnt == IF NgramCap < Len(tk) - n + 1 THEN NgramCap ELSE Len(tk) - n + 1
         IN [i \in 1..cnt |-> lower(SubSeq(tk, i, i + n - 1))]

word_shape(tk) ==
    [i \in DOMAIN tk |->
        IF char_isdigit(tk[i]) THEN "d"
        ELSE IF char_isalpha(tk[i]) THEN (IF char_isupper(tk[i]) THEN "X" ELSE "x")
        ELSE tk[i]]

\* compile_chemical_patterns(): the seven expressions, by position
chemical_patterns == <<1, 2, 3, 4, 5, 6, 7>>

\* letter, opening bracket, one or more alphanumerics, closing bracket
Bracketed(tk, open, close) ==
    \E i \in DOMAIN tk : \E j \in DOMAIN tk :
        /\ j >= i + 3
        /\ char_isalpha(tk[i]) /\ tk[i + 1] = open /\ tk[j] = close
        /\ \A m \in (i + 2)..(j - 1) : char_isalnum(tk[m])

\* pattern.search(token) for pattern number p
pattern_search(p, tk) ==
    LET Triple(P1(_), P2(_), P3(_)) ==
            \E i \in 1..(Len(tk) - 2) : P1(tk[i]) /\ P2(tk[i + 1]) /\ P3(tk[i + 2])
        Pair(P1(_), P2(_)) == \E i \in 1..(Len(tk) - 1) : P1(tk[i]) /\ P2(tk[i + 1])
        IsSep(c) == c \in {",", ".", "-"}
        IsDash(c) == c = "-"
    IN CASE p = 1 -> Triple(char_isdigit, IsSep, char_isdigit)
         [] p = 2 -> Pair(char_isalpha, char_isdigit)
         [] p = 3 -> Pair(char_isdigit, char_isalpha)
         [] p = 4 -> Triple(char_isalpha, IsDash, char_isdigit)
         [] p = 5 -> Triple(char_isdigit, IsDash, char_isalpha)
         [] p = 6 -> Bracketed(tk, "(", ")")
         [] p = 7 -> Bracketed(tk, "[", "]")

has_chemical_pattern(tk, patterns) ==
    \E k \in DOMAIN patterns : pattern_search(patterns[k], tk)

AffixLen == 3

has_drug_affix(tk, common_drug_prefixes, common_drug_suffixes) ==
    LET t_lower == lower(tk)
    IN IF Len(t_lower) < AffixLen THEN FALSE
       ELSE \/ SubSeq(t_lower, 1, AffixLen) \in common_drug_prefixes
            \/ SubSeq(t_lower, Len(t_lower) - AffixLen + 1, Len(t_lower)) \in common_drug_suffixes

LongWordLen == 10

If(c, fs) == IF c THEN fs ELSE <<>>

\* the features extract_character_features appends for token tk, in order
extract_character_features(tk, patterns, common_drug_prefixes, common_drug_suffixes) ==
    [i \in DOMAIN char_ngrams(tk, 2) |-> Feat("char2gram", char_ngrams(tk, 2)[i])]
    \o <<Feat("wordShape", word_shape(tk))>>
    \o <<Feat("casing", casing(tk))>>
    \o If(\E i \in DOMAIN tk : char_isdigit(tk[i]), <<Feat("hasDigit", True)>>)
    \o If(\E i \in DOMAIN tk : tk[i] = "-", <<Feat("hasHyphen", True)>>)
    \o If(\E i \in DOMAIN tk : tk[i] \in {"(", ")"}, <<Feat("hasParenthesis", True)>>)
    \o If(\E i \in DOMAIN tk : tk[i] \in {"[", "]"}, <<Feat("hasBracket", True)>>)
    \o If(has_chemical_pattern(tk, patterns), <<Feat("hasChemicalPattern", True)>>)
    \o If(has_drug_affix(tk, common_drug_prefixes, common_drug_suffixes),
          <<Feat("hasDrugAffix", True)>>)
    \o If(Len(tk) > LongWordLen, <<Feat("isLongWord", True)>>)

----------------------------------------------------------------------------
(* lexicon.py and main.py: the resource bundle *)

\* ord(c) for the characters of the model
ord(c) ==
    CASE c = " " -> 32 [] c = "\"" -> 34 [] c = "'" -> 39 [] c = "-" -> 45
      [] c = "1" -> 49 [] c = "A" -> 65 [] c = "G" -> 96 [] c = "a" -> 97
      [] c = "e" -> 101 [] c = "n" -> 110 [] c = "s" -> 115 [] c = "t" -> 116

\* Python's str < str
RECURSIVE str_less(_, _)
str_less(a, b) ==
    IF b = <<>> THEN FALSE
    ELSE IF a = <<>> THEN TRUE
    ELSE IF Head(a) # Head(b) THEN ord(Head(a)) < ord(Head(b))
    ELSE str_less(Tail(a), Tail(b))

\* sorted(S) for a set of strings
RECURSIVE sorted(_)
sorted(S) ==
    IF S = {} THEN <<>>
    ELSE LET m == CHOOSE x \in S : \A y \in S \ {x} : str_less(x, y)
         IN <<m>> \o sorted(S \ {m})

\* A lexicon file is its non-blank stripped lines; a DrugBank line is the
\* list of its '|'-separated parts (name, then type when present).
load_drugbank(lines) ==
    LET named == {lower(lines[i][1]) : i \in DOMAIN lines}
        typed == {i \in DOMAIN lines : Len(lines[i]) > 1}
        last(nm) == CHOOSE i \in typed :
                        /\ lower(lines[i][1]) = nm
                        /\ \A j \in typed : lower(lines[j][1]) = nm => j <= i
    IN [drugbank_lexicon |-> named,
        drugbank_types |-> [nm \in {lower(lines[i][1]) : i \in typed} |-> lines[last(nm)][2]]]

load_hsdb(lines) == {lower(lines[i]) : i \in DOMAIN lines}

extract_affixes(drug_lexicon) ==
    LET long == {d \in drug_lexicon : Len(d) > AffixLen}
    IN [common_drug_prefixes |-> {lower(SubSeq(d, 1, AffixLen)) : d \in long},
        common_drug_suffixes |-> {lower(SubSeq(d, Len(d) - AffixLen + 1, Len(d))) : d \in long}]

ShortMin == 4
ShortMax == 10
SampleSizeDB == 500
SampleSizeHSDB == 200

sample_short_drugs(lexicon, sample_size) ==
    LET all == sorted({d \in lexicon : ShortMin < Len(d) /\ Len(d) < ShortMax})
    IN SubSeq(all, 1, IF Len(all) < sample_size THEN Len(all) ELSE sample_size)

load_lexicons(drugbank_file, hsdb_file) ==
    LET db == load_drugbank(drugbank_file)
        hsdb_lexicon == load_hsdb(hsdb_file)
        affixes == extract_affixes(db.drugbank_lexicon)
    IN [drugbank_lexicon |-> db.drugbank_lexicon,
        drugbank_types |-> db.drugbank_types,
        hsdb_lexicon |-> hsdb_lexicon,
        common_drug_prefixes |-> affixes.common_drug_prefixes,
        common_drug_suffixes |-> affixes.common_drug_suffixes,
        chemical_patterns |-> chemical_patterns,
        short_drugs_db |-> sample_short_drugs(db.drugbank_lexicon, SampleSizeDB),
        short_drugs_hsdb |-> sample_short_drugs(hsdb_lexicon, SampleSizeHSDB)]

\* load_resources(): the lexicons plus the embedding map, which is the
\* loaded map when the embedding file exists and {} when it does not
load_resources(drugbank_file, hsdb_file, embedding_file) ==
    load_lexicons(drugbank_file, hsdb_file) @@ [word_embeddings |-> embedding_file]

\* the lexicon files and embedding maps of the model
Aaaaa == <<"a", "a", "a", "a", "a">>
DrugBankFiles == {<< <<Aaaaa, "drug">>, << <<"A", " ", "a">> >>, << <<"a">>, "brand">> >>}
HSDBFiles == {<< <<"a", " ", "a">>, <<"A", "a", "a", "a", "a", "s">> >>}
NoEmbeddings == <<>>

\* A vector component is a float: a finite value, kept in hundredths (50 is
\* 0.50), or one of inf, -inf, nan, which float() parses from the file too.
Finite(h) == [kind |-> "finite", hundredths |-> h]
PosInf == [kind |-> "inf", hundredths |-> 0]
NegInf == [kind |-> "-inf", hundredths |-> 0]
NaN == [kind |-> "nan", hundredths |-> 0]

EmbeddingMaps == {NoEmbeddings, [w \in {<<"a">>} |-> <<Finite(50), Finite(-120)>>]}

\* a lexicon file that open() finds, with its lines, or one it does not find
Present(lines) == [exists |-> TRUE, lines |-> lines]
Missing == [exists |-> FALSE, lines |-> <<>>]

\* what main finds on disk: DrugBank.txt, HSDB.txt and the embedding map
LexiconFiles ==
    [drugbank : {Present(f) : f \in DrugBankFiles} \cup {Missing},
     hsdb : {Present(f) : f \in HSDBFiles} \cup {Missing},
     embeddings : EmbeddingMaps]
NoFiles == [drugbank |-> Missing, hsdb |-> Missing, embeddings |-> NoEmbeddings]
NoResources == <<>>

----------------------------------------------------------------------------
(* embeddings.py: get_embedding_features *)

EmbeddingDim == 50
EmbeddingBins == 5

EmbName(d) == "emb_" \o ToString(d)

\* The bin of the finite value v (in hundredths) is
\* floor((v + 1.0) * (bins / 2.0)) clamped to 0..bins-1.
embedding_bin(v, bins) ==
    LET bin_value == ((v + 100) * bins) \div 200
        capped == IF bins - 1 < bin_value THEN bins - 1 ELSE bin_value
    IN IF capped < 0 THEN 0 ELSE capped

get_embedding_features(tk, embeddings, dimension, bins) ==
    LET t_lower == lower(tk)
    IN IF DOMAIN embeddings = {} THEN <<Feat("emb_unavailable", True)>>
       ELSE IF t_lower \in DOMAIN embeddings
       THEN LET emb == embeddings[t_lower]
                n == IF dimension < Len(emb) THEN dimension ELSE Len(emb)
            IN [d \in 1..n |-> Feat(EmbName(d - 1), <<embedding_bin(emb[d].hundredths, bins)>>)]
       ELSE <<Feat("emb_OOV", True)>>

\* line 77: np.floor leaves inf, -inf and nan as they are, and int() of such
\* a float raises (OverflowError, ValueError) before the clamp of line 78
embedding_raises(tk, embeddings, dimension) ==
    /\ DOMAIN embeddings # {}
    /\ lower(tk) \in DOMAIN embeddings
    /\ LET emb == embeddings[lower(tk)]
       IN \E d \in 1..Len(emb) : d <= dimension /\ emb[d].kind # "finite"

Raised == [raised |-> TRUE, features |-> <<>>]
Returned(fs) == [raised |-> FALSE, features |-> fs]

----------------------------------------------------------------------------
(* feature_extraction.py: the other generators and extract_features *)

Form(tokens, k) == tokens[k + 1][1]      \* tokens[k][0] for a 0-based k

Prefix(s, n) == SubSeq(s, 1, n)
Suffix(s, n) == SubSeq(s, Len(s) - n + 1, Len(s))
EndsWith(s, e) == Len(s) >= Len(e) /\ Suffix(s, Len(e)) = e

extract_basic_features(t) ==
    <<Feat("form", t), Feat("formLower", lower(t))>>
    \o If(Len(t) >= 3, <<Feat("pref3", lower(Prefix(t, 3))), Feat("suf3", lower(Suffix(t, 3)))>>)
    \o If(Len(t) >= 4, <<Feat("pref4", lower(Prefix(t, 4))), Feat("suf4", lower(Suffix(t, 4)))>>)
    \o If(Len(t) >= 5, <<Feat("pref5", lower(Prefix(t, 5))), Feat("suf5", lower(Suffix(t, 5)))>>)

Underscore == <<"_">>

\* a context generator that gives the only token of a sentence no EoS
extract_context_features_single_BoS(tokens, k) ==
    (IF k > 0
     THEN LET tPrev == Form(tokens, k - 1)
          IN <<Feat("formPrev", tPrev),
               Feat("formLowerPrev", lower(tPrev)),
               Feat("casingPrev", casing(tPrev)),
               Feat("bigram", lower(tPrev) \o Underscore \o lower(Form(tokens, k)))>>
             \o If(k > 1,
                   <<Feat("formPrev2", Form(tokens, k - 2)),
                     Feat("trigram", lower(Form(tokens, k - 2)) \o Underscore \o lower(tPrev)
                                     \o Underscore \o lower(Form(tokens, k)))>>)
     ELSE <<Flag("BoS")>>)
    \o
    (IF k < Len(tokens) - 1
     THEN LET tNext == Form(tokens, k + 1)
          IN <<Feat("formNext", tNext),
               Feat("formLowerNext", lower(tNext)),
               Feat("casingNext", casing(tNext))>>
             \o If(k < Len(tokens) - 2, <<Feat("formNext2", Form(tokens, k + 2))>>)
     ELSE If(k > 0, <<Flag("EoS")>>))

extract_context_features(tokens, k) ==
    (IF k > 0
     THEN LET tPrev == Form(tokens, k - 1)
          IN <<Feat("formPrev", tPrev),
               Feat("formLowerPrev", lower(tPrev)),
               Feat("casingPrev", casing(tPrev)),
               Feat("bigram", lower(tPrev) \o Underscore \o lower(Form(tokens, k)))>>
             \o If(k > 1,
                   <<Feat("formPrev2", Form(tokens, k - 2)),
                     Feat("trigram", lower(Form(tokens, k - 2)) \o Underscore \o lower(tPrev)
                                     \o Underscore \o lower(Form(tokens, k)))>>)
     ELSE <<Flag("BoS")>>)
    \o
    (IF k < Len(tokens) - 1
     THEN LET tNext == Form(tokens, k + 1)
          IN <<Feat("formNext", tNext),
               Feat("formLowerNext", lower(tNext)),
               Feat("casingNext", casing(tNext))>>
             \o If(k < Len(tokens) - 2, <<Feat("formNext2", Form(tokens, k + 2))>>)
     ELSE <<Flag("EoS")>>)

TrailingPunct == {".", ",", ";", ":", "!", "?", "-"}

\* str.rstrip(chars)
RECURSIVE rstrip(_, _)
rstrip(s, chars) ==
    IF s # <<>> /\ s[Len(s)] \in chars THEN rstrip(SubSeq(s, 1, Len(s) - 1), chars) ELSE s

\* str.replace(old, ""): drop the non-overlapping occurrences, left to right
RECURSIVE remove_all(_, _)
remove_all(s, old) ==
    IF Len(s) < Len(old) THEN s
    ELSE IF Prefix(s, Len(old)) = old THEN remove_all(SubSeq(s, Len(old) + 1, Len(s)), old)
    ELSE <<Head(s)>> \o remove_all(Tail(s), old)

\* 'a in b' for strings
in_str(a, b) == \E i \in 0..Len(b) : OccursAt(b, a, i)

\* the linear scan of partial_match_morphological: whether some short entry
\* contains the candidate or is contained in it
scan_short_drugs(base_candidate, short_drugs) ==
    \E i \in DOMAIN short_drugs :
        in_str(short_drugs[i], base_candidate) \/ in_str(base_candidate, short_drugs[i])

\* returns the value and the cache as the call leaves it
partial_match_morphological(tk, short_drugs, cache) ==
    LET b0 == remove_all(rstrip(lower(tk), TrailingPunct), <<"'", "s">>)
        b1 == IF EndsWith(b0, <<"s">>) THEN SubSeq(b0, 1, Len(b0) - 1) ELSE b0
        base_candidate == IF EndsWith(b1, <<"e", "s">>) THEN SubSeq(b1, 1, Len(b1) - 2) ELSE b1
        key == <<"morph_", base_candidate>>
    IN IF key \in DOMAIN cache THEN [value |-> cache[key], cache |-> cache]
       ELSE LET found == scan_short_drugs(base_candidate, short_drugs)
            IN [value |-> found, cache |-> (key :> found) @@ cache]

Blank == <<" ">>
EmptyCache == <<>>

extract_lexicon_features(tokens, k, lex_data) ==
    LET surface1 == rstrip(lower(Form(tokens, k)), TrailingPunct)
        n1 == IF EndsWith(surface1, <<"'", "s">>) THEN SubSeq(surface1, 1, Len(surface1) - 2)
              ELSE surface1
        normed == IF EndsWith(n1, <<"s">>) THEN SubSeq(n1, 1, Len(n1) - 1) ELSE n1
        surface2 == IF k < Len(tokens) - 1
                    THEN lower(Form(tokens, k) \o Blank \o Form(tokens, k + 1))
                    ELSE <<>>
        surface3 == IF k < Len(tokens) - 2
                    THEN lower(Form(tokens, k) \o Blank \o Form(tokens, k + 1)
                               \o Blank \o Form(tokens, k + 2))
                    ELSE <<>>
        drugbank_lexicon == lex_data.drugbank_lexicon
        drugbank_types == lex_data.drugbank_types
        hsdb_lexicon == lex_data.hsdb_lexicon
        partial_match_cache_db == EmptyCache
        partial_match_cache_hsdb == EmptyCache
    IN If(normed \in drugbank_lexicon,
          <<Feat("exactInDrugBank", True)>>
          \o If(normed \in DOMAIN drugbank_types, <<Feat("drugType", <<drugbank_types[normed]>>)>>))
       \o If(normed \in hsdb_lexicon, <<Feat("exactInHSDB", True)>>)
       \o If(surface2 \in drugbank_lexicon \/ surface3 \in drugbank_lexicon,
             <<Feat("windowInDrugBank", True)>>)
       \o If(surface2 \in hsdb_lexicon \/ surface3 \in hsdb_lexicon,
             <<Feat("windowInHSDB", True)>>)
       \o If(partial_match_morphological(Form(tokens, k), lex_data.short_drugs_db,
                                         partial_match_cache_db).value,
             <<Feat("partialMatchDB", True)>>)
       \o If(partial_match_morphological(Form(tokens, k), lex_data.short_drugs_hsdb,
                                         partial_match_cache_hsdb).value,
             <<Feat("partialMatchHSDB", True)>>)

\* a POS generator without the placeholder
extract_pos_features_no_placeholder(pos_tags, index) ==
    IF /\ index < Len(pos_tags)
       /\ Len(pos_tags[index + 1]) > 1
       /\ pos_tags[index + 1][2] # ""
    THEN <<Feat("pos", <<pos_tags[index + 1][2]>>)>>
    ELSE <<>>

\* pos_tags is a list of (token, tag) pairs; an empty tag is falsy
extract_pos_features(pos_tags, index) ==
    IF /\ index < Len(pos_tags)
       /\ Len(pos_tags[index + 1]) > 1
       /\ pos_tags[index + 1][2] # ""
    THEN <<Feat("pos", <<pos_tags[index + 1][2]>>)>>
    ELSE <<Feat("pos", <<"UNK">>)>>

\* What nltk.pos_tag may do for a sentence: raise, or return one
\* (token, tag) pair per token.
PosTags == {"NN"}
PosAnswers(token_texts) ==
    {[raised |-> TRUE, tagged |-> <<>>]} \cup
    {[raised |-> FALSE, tagged |-> [j \in DOMAIN token_texts |-> <<token_texts[j], tg>>]]
     : tg \in PosTags}

\* the list of (token, tag) pairs extract_features works with: the
\* annotator's pairs padded with UNK at the tail, or UNK throughout when it
\* raised; the annotator is not called for an empty sentence
pos_tags_for(token_texts, answer) ==
    IF token_texts # <<>> /\ answer.raised
    THEN [j \in DOMAIN token_texts |-> <<token_texts[j], "UNK">>]
    ELSE LET tagged == IF token_texts = <<>> THEN <<>> ELSE answer.tagged
         IN IF Len(tagged) # Len(token_texts)
            THEN tagged \o [j \in 1..(Len(token_texts) - Len(tagged)) |->
                               <<token_texts[Len(tagged) + j], "UNK">>]
            ELSE tagged

\* an extract_features that returns no feature list when the annotator raises
extract_features_none_on_failure(tokens, lex_data, pos_answer) ==
    IF pos_answer.raised THEN <<>>
    ELSE [k \in DOMAIN tokens |->
             extract_basic_features(Form(tokens, k - 1))
             \o extract_pos_features(pos_answer.tagged, k - 1)]

\* extract_features(tokens, lex_data), given the POS annotator's answer
extract_features(tokens, lex_data, pos_answer) ==
    LET token_texts == [i \in DOMAIN tokens |-> tokens[i][1]]
        pos_tags == pos_tags_for(token_texts, pos_answer)
    IN [i \in DOMAIN tokens |->
          LET k == i - 1
              t == Form(tokens, k)
          IN extract_basic_features(t)
             \o extract_character_features(t, lex_data.chemical_patterns,
                                           lex_data.common_drug_prefixes,
                                           lex_data.common_drug_suffixes)
             \o extract_context_features(tokens, k)
             \o extract_lexicon_features(tokens, k, lex_data)
             \o extract_pos_features(pos_tags, k)]

----------------------------------------------------------------------------
(* extract-features.py: the module-level lexicons and extract_features *)

legacy_casing(tk) ==
    IF isupper(tk) THEN <<"ALLCAPS">>
    ELSE IF istitle(tk) THEN <<"Title">>
    ELSE IF islower(tk) THEN <<"LOWER">>
    ELSE IF \E i \in DOMAIN tk : char_isupper(tk[i]) THEN <<"MIXED">>
    ELSE <<"NOCASE">>

\* the subsets of S with k elements
RECURSIVE subsets_of_size(_, _)
subsets_of_size(S, k) ==
    IF k = 0 THEN {{}}
    ELSE UNION {{X \cup {d} : d \in S \ X} : X \in subsets_of_size(S, k - 1)}

\* [drug for drug in lexicon if 4 < len(drug) < 10][:sample_size], where
\* lexicon is a set of strings: the comprehension takes the entries in the
\* set's iteration order, which follows the string hashes and so differs from
\* one interpreter run to the next.  The sample is only ever scanned for some
\* matching entry, so it is kept as the set of its entries: any sample_size
\* of the short entries, or all of them when there are no more than that.
legacy_sample(lexicon, sample_size) ==
    LET short == {d \in lexicon : ShortMin < Len(d) /\ Len(d) < ShortMax}
    IN IF Cardinality(short) <= sample_size THEN {short}
       ELSE {short \ X : X \in subsets_of_size(short, Cardinality(short) - sample_size)}

\* lines 10-46: what the module-level code can leave in the globals
legacy_load(drugbank_file, hsdb_file) ==
    LET db == load_drugbank(drugbank_file)
        hsdb_lexicon == load_hsdb(hsdb_file)
        affixes == extract_affixes(db.drugbank_lexicon)
    IN {[drugbank_lexicon |-> db.drugbank_lexicon,
         drugbank_types |-> db.drugbank_types,
         hsdb_lexicon |-> hsdb_lexicon,
         common_drug_prefixes |-> affixes.common_drug_prefixes,
         common_drug_suffixes |-> affixes.common_drug_suffixes,
         short_drugs_db |-> sd,
         short_drugs_hsdb |-> sh] :
        sd \in legacy_sample(db.drugbank_lexicon, SampleSizeDB),
        sh \in legacy_sample(hsdb_lexicon, SampleSizeHSDB)}

\* " ".join of the forms of tokens i .. j-1 (0-based)
RECURSIVE join_forms(_, _, _)
join_forms(tokens, i, j) ==
    IF i >= j THEN <<>>
    ELSE IF i + 1 = j THEN Form(tokens, i)
    ELSE Form(tokens, i) \o Blank \o join_forms(tokens, i + 1, j)

window_surface(tokens, k, size) ==
    lower(join_forms(tokens, k, IF k + size < Len(tokens) THEN k + size ELSE Len(tokens)))

backward_window(tokens, k, size) ==
    IF k < size THEN lower(join_forms(tokens, 0, k))
    ELSE lower(join_forms(tokens, k - size, k))

\* has_partial_match_db with its cache dictionary: the value returned and
\* the cache as the call leaves it
has_partial_match_db(surface, globals, cache) ==
    IF surface \in DOMAIN cache THEN [value |-> cache[surface], cache |-> cache]
    ELSE LET found == \E drug \in globals.short_drugs_db :
                          in_str(drug, surface) \/ in_str(surface, drug)
         IN [value |-> found, cache |-> (surface :> found) @@ cache]

\* a lookup for HSDB that scans the DrugBank sample
has_partial_match_other_sample(surface, globals, cache) ==
    IF surface \in DOMAIN cache THEN [value |-> cache[surface], cache |-> cache]
    ELSE LET found == \E drug \in globals.short_drugs_db :
                          in_str(drug, surface) \/ in_str(surface, drug)
         IN [value |-> found, cache |-> (surface :> found) @@ cache]

has_partial_match_hsdb(surface, globals, cache) ==
    IF surface \in DOMAIN cache THEN [value |-> cache[surface], cache |-> cache]
    ELSE LET found == \E drug \in globals.short_drugs_hsdb :
                          in_str(drug, surface) \/ in_str(surface, drug)
         IN [value |-> found, cache |-> (surface :> found) @@ cache]

\* lines 203-232: the context features, with the script's own casing
legacy_context_features(tokens, k) ==
    (IF k > 0
     THEN LET tPrev == Form(tokens, k - 1)
          IN <<Feat("formPrev", tPrev),
               Feat("formLowerPrev", lower(tPrev)),
               Feat("casingPrev", legacy_casing(tPrev)),
               Feat("bigram", lower(tPrev) \o Underscore \o lower(Form(tokens, k)))>>
             \o If(k > 1,
                   <<Feat("formPrev2", Form(tokens, k - 2)),
                     Feat("trigram", lower(Form(tokens, k - 2)) \o Underscore \o lower(tPrev)
                                     \o Underscore \o lower(Form(tokens, k)))>>)
     ELSE <<Flag("BoS")>>)
    \o
    (IF k < Len(tokens) - 1
     THEN LET tNext == Form(tokens, k + 1)
          IN <<Feat("formNext", tNext),
               Feat("formLowerNext", lower(tNext)),
               Feat("casingNext", legacy_casing(tNext))>>
             \o If(k < Len(tokens) - 2, <<Feat("formNext2", Form(tokens, k + 2))>>)
     ELSE <<Flag("EoS")>>)

\* lines 162-275: the features of token k, and the two caches afterwards
legacy_token_features(tokens, k, globals, cache_db, cache_hsdb) ==
    LET t == Form(tokens, k)
        surface1 == lower(t)
        surface2 == window_surface(tokens, k, 2)
        surface3 == window_surface(tokens, k, 3)
        back_window2 == backward_window(tokens, k, 2)
        partial_db == has_partial_match_db(surface1, globals, cache_db)
        partial_hsdb == has_partial_match_hsdb(surface1, globals, cache_hsdb)
    IN [features |->
           extract_basic_features(t)
           \o [i \in DOMAIN char_ngrams(t, 2) |-> Feat("char2gram", char_ngrams(t, 2)[i])]
           \o <<Feat("casing", legacy_casing(t))>>
           \o If(\E i \in DOMAIN t : char_isdigit(t[i]), <<Feat("hasDigit", True)>>)
           \o If(\E i \in DOMAIN t : t[i] = "-", <<Feat("hasHyphen", True)>>)
           \o If(\E i \in DOMAIN t : t[i] \in {"(", ")"}, <<Feat("hasParenthesis", True)>>)
           \o If(\E i \in DOMAIN t : t[i] \in {"[", "]"}, <<Feat("hasBracket", True)>>)
           \o If(has_chemical_pattern(t, chemical_patterns), <<Feat("hasChemicalPattern", True)>>)
           \o If(has_drug_affix(t, globals.common_drug_prefixes, globals.common_drug_suffixes),
                 <<Feat("hasDrugAffix", True)>>)
           \o If(Len(t) > LongWordLen, <<Feat("isLongWord", True)>>)
           \o legacy_context_features(tokens, k)
           \o If(surface1 \in globals.drugbank_lexicon,
                 <<Feat("exactInDrugBank", True)>>
                 \o If(surface1 \in DOMAIN globals.drugbank_types,
                       <<Feat("drugType", <<globals.drugbank_types[surface1]>>)>>))
           \o If(surface1 \in globals.hsdb_lexicon, <<Feat("exactInHSDB", True)>>)
           \o If(surface2 \in globals.drugbank_lexicon \/ surface3 \in globals.drugbank_lexicon,
                 <<Feat("windowInDrugBank", True)>>)
           \o If(surface2 \in globals.hsdb_lexicon \/ surface3 \in globals.hsdb_lexicon,
                 <<Feat("windowInHSDB", True)>>)
           \o If(back_window2 \in globals.drugbank_lexicon,
                 <<Feat("backWindowInDrugBank", True)>>)
           \o If(back_window2 \in globals.hsdb_lexicon, <<Feat("backWindowInHSDB", True)>>)
           \o If(partial_db.value, <<Feat("partialMatchDrugBank", True)>>)
           \o If(partial_hsdb.value, <<Feat("partialMatchHSDB", True)>>),
        cache_db |-> partial_db.cache,
        cache_hsdb |-> partial_hsdb.cache]

\* the loop of extract_features: the caches live for the whole call
RECURSIVE legacy_extract_loop(_, _, _, _, _, _)
legacy_extract_loop(tokens, k, globals, cache_db, cache_hsdb, result) ==
    IF k >= Len(tokens) THEN result
    ELSE LET r == legacy_token_features(tokens, k, globals, cache_db, cache_hsdb)
         IN legacy_extract_loop(tokens, k + 1, globals, r.cache_db, r.cache_hsdb,
                                Append(result, r.features))

legacy_extract_features(tokens, globals) ==
    legacy_extract_loop(tokens, 0, globals, EmptyCache, EmptyCache, <<>>)

----------------------------------------------------------------------------
(* main.py: process_file and main *)

MaxSentences == 2   \* sentences in the input directory

\* the two characters backslash, n: the escaped-newline placeholder
EscapedNewline == "\\n"
SentenceIds == {"s1", "", EscapedNewline}

\* A charOffset attribute is its ';'-separated pieces, each the list of its
\* '-'-separated integer fields: "0-0;2-2" is <<<<0, 0>>, <<2, 2>>>>, and
\* "0" (no dash) is <<<<0>>>>.
CharOffsets == {<< <<0, 0>>, <<2, 2>> >>, << <<0>> >>}
Entities == [charOffset : CharOffsets, type : {"drug"}]
EntityLists == SeqsUpTo(Entities, 1)

SentenceTexts == {<<"a", " ", "a">>, <<"a">>, <<>>}

\* the <sentence> elements with these ids and texts, each with the word
\* tokenizer's answer for its text
SentencesOf(ids, texts) ==
    UNION {[id : ids, text : {t}, wt : word_tokenize(t), entities : EntityLists]
           : t \in texts}

Sentences == SentencesOf(SentenceIds, SentenceTexts)

\* 'start, end = offset.split("-")' raises unless there are exactly two fields
Malformed(entities) ==
    \E e \in DOMAIN entities : \E p \in DOMAIN entities[e].charOffset :
        Len(entities[e].charOffset[p]) # 2

\* the spans of one entity: one per range of its charOffset
RECURSIVE ranges_of(_, _)
ranges_of(char_offsets, typ) ==
    IF char_offsets = <<>> THEN <<>>
    ELSE <<<<Head(char_offsets)[1], Head(char_offsets)[2], typ>>>>
         \o ranges_of(Tail(char_offsets), typ)

\* process_file lines 61-71: the span list of a sentence
RECURSIVE entity_spans(_)
entity_spans(entities) ==
    IF entities = <<>> THEN <<>>
    ELSE ranges_of(Head(entities).charOffset, Head(entities).type)
         \o entity_spans(Tail(entities))

\* str.replace(c, r) for a single character c
RECURSIVE replace_char(_, _, _)
replace_char(s, c, r) ==
    IF s = <<>> THEN <<>>
    ELSE (IF Head(s) = c THEN r ELSE <<Head(s)>>) \o replace_char(Tail(s), c, r)

\* .replace('\n', '\\n').replace('\t', '\\t')
sanitize(s) == replace_char(replace_char(s, "\n", <<"\\", "n">>), "\t", <<"\\", "t">>)

sanitize_features(fs) == [j \in DOMAIN fs |-> [fs[j] EXCEPT !.value = sanitize(@)]]

\* an output line: the tab-separated fields of a token line, or the blank line
TokenLine(sentence_id, form, start, end, t, fs) == <<"token", sentence_id, form, start, end, t, fs>>
BlankLine == <<"blank">>

NoSentence ==
    [id |-> "", entities |-> <<>>, spans |-> <<>>, tokens |-> <<>>, features |-> <<>>,
     wrote |-> <<>>]

ValidSid(sentence_id) == ~(sentence_id = "" \/ sentence_id = EscapedNewline)

\* no sentence taken yet
NoSid == "<none>"

\* a start in which a missing lexicon file is taken for an empty one
PipeInit_LoadContinues ==
    /\ lexfiles \in LexiconFiles
    /\ lexicon_data = load_resources(lexfiles.drugbank.lines, lexfiles.hsdb.lines,
                                     lexfiles.embeddings)
    /\ pc = "sentence"
    /\ nread = 0
    /\ sid = NoSid
    /\ cur = NoSentence
    /\ ti = 0
    /\ out = <<>>
    /\ done = <<>>

\* main lines 127-131 and 138-140: load_resources has returned the bundle, or
\* open() raised for a lexicon file, main printed the error and exited with
\* status 1
PipeInit ==
    /\ lexfiles \in LexiconFiles
    /\ IF lexfiles.drugbank.exists /\ lexfiles.hsdb.exists
       THEN /\ lexicon_data = load_resources(lexfiles.drugbank.lines, lexfiles.hsdb.lines,
                                             lexfiles.embeddings)
            /\ pc = "sentence"
       ELSE /\ lexicon_data = NoResources
            /\ pc = "fatal"
    /\ nread = 0
    /\ sid = NoSid
    /\ cur = NoSentence
    /\ ti = 0
    /\ out = <<>>
    /\ done = <<>>

PipeIdle ==
    /\ lexfiles = NoFiles /\ lexicon_data = NoResources /\ nread = 0 /\ sid = NoSid
    /\ cur = NoSentence /\ ti = 0
    /\ out = <<>> /\ done = <<>> /\ pc = "idle"

\* a skip that still writes the separator line
SkipSentence_WritesBlank ==
    /\ pc = "sentence" /\ nread < MaxSentences
    /\ \E s \in Sentences : ~ValidSid(s.id) /\ sid' = s.id
    /\ nread' = nread + 1
    /\ out' = Append(out, BlankLine)
    /\ UNCHANGED <<lexfiles, lexicon_data, cur, ti, done, pc>>

\* lines 52-59: a sentence with an invalid id is skipped with a warning
SkipSentenceFrom(input) ==
    /\ pc = "sentence" /\ nread < MaxSentences
    /\ \E s \in input : ~ValidSid(s.id) /\ sid' = s.id
    /\ nread' = nread + 1
    /\ UNCHANGED <<lexfiles, lexicon_data, cur, ti, out, done, pc>>

SkipSentence == SkipSentenceFrom(Sentences)

\* lines 66-71: a charOffset piece without exactly two fields raises; nothing
\* in process_file catches it, main prints the error and exits with status 1
SentenceRaisesFrom(input) ==
    /\ pc = "sentence" /\ nread < MaxSentences
    /\ \E s \in input : ValidSid(s.id) /\ Malformed(s.entities) /\ sid' = s.id
    /\ nread' = nread + 1
    /\ pc' = "failed"
    /\ UNCHANGED <<lexfiles, lexicon_data, cur, ti, out, done>>

SentenceRaises == SentenceRaisesFrom(Sentences)

\* lines 53-77: spans, tokens and features of the next sentence
BeginSentenceFrom(input) ==
    /\ pc = "sentence" /\ nread < MaxSentences
    /\ \E s \in input :
          /\ ValidSid(s.id) /\ ~Malformed(s.entities)
          /\ sid' = s.id
          /\ LET tokens == tokenize(s.text, s.wt)
             IN \E pos_answer \in PosAnswers([k \in DOMAIN tokens |-> tokens[k][1]]) :
                    cur' = [id |-> s.id,
                            entities |-> s.entities,
                            spans |-> entity_spans(s.entities),
                            tokens |-> tokens,
                            features |-> extract_features(tokens, lexicon_data, pos_answer),
                            wrote |-> <<>>]
    /\ nread' = nread + 1
    /\ ti' = 0
    /\ pc' = "tokens"
    /\ UNCHANGED <<lexfiles, lexicon_data, out, done>>

BeginSentence == BeginSentenceFrom(Sentences)

\* lines 80-113, one iteration whose write succeeds (or whose token is empty
\* and is skipped)
WriteLine ==
    /\ pc = "tokens" /\ ti < Len(cur.tokens)
    /\ LET token_text == cur.tokens[ti + 1][1]
           token_start == cur.tokens[ti + 1][2]
           token_end == cur.tokens[ti + 1][3]
           tg == get_tag(cur.tokens[ti + 1], cur.spans)
       IN IF token_text = <<>> \/ tg = "" \/ ti + 1 > Len(cur.features)
          THEN /\ out' = out
               /\ cur' = [cur EXCEPT !.wrote = Append(@, FALSE)]
          ELSE /\ out' = Append(out, TokenLine(cur.id, sanitize(token_text), token_start,
                                              token_end, tg,
                                              sanitize_features(cur.features[ti + 1])))
               /\ cur' = [cur EXCEPT !.wrote = Append(@, TRUE)]
    /\ ti' = ti + 1
    /\ UNCHANGED <<lexfiles, lexicon_data, nread, sid, done, pc>>

\* lines 111-116: outfile.write raises for this line (for instance the
\* stream's encoding cannot represent the token); the error is printed and the
\* loop continues with the next token
WriteLineFails ==
    /\ pc = "tokens" /\ ti < Len(cur.tokens)
    /\ cur.tokens[ti + 1][1] # <<>>
    /\ cur' = [cur EXCEPT !.wrote = Append(@, FALSE)]
    /\ ti' = ti + 1
    /\ UNCHANGED <<lexfiles, lexicon_data, nread, sid, out, done, pc>>

\* the end of a sentence that also empties the bundle's DrugBank sample
EndSentence_DropsSample ==
    /\ pc = "tokens" /\ ti = Len(cur.tokens)
    /\ out' = Append(out, BlankLine)
    /\ done' = Append(done, cur)
    /\ cur' = NoSentence
    /\ ti' = 0
    /\ pc' = "sentence"
    /\ lexicon_data' = [lexicon_data EXCEPT !.short_drugs_db = <<>>]
    /\ UNCHANGED <<lexfiles, nread, sid>>

\* the end of a sentence without its terminating blank line
EndSentence_NoBlank ==
    /\ pc = "tokens" /\ ti = Len(cur.tokens)
    /\ done' = Append(done, cur)
    /\ cur' = NoSentence
    /\ ti' = 0
    /\ pc' = "sentence"
    /\ UNCHANGED <<lexfiles, lexicon_data, nread, sid, out>>

\* lines 118-119: the blank line that ends the sentence's block
EndSentence ==
    /\ pc = "tokens" /\ ti = Len(cur.tokens)
    /\ out' = Append(out, BlankLine)
    /\ done' = Append(done, cur)
    /\ cur' = NoSentence
    /\ ti' = 0
    /\ pc' = "sentence"
    /\ UNCHANGED <<lexfiles, lexicon_data, nread, sid>>

\* main line 137: the input is exhausted
Complete ==
    /\ pc = "sentence"
    /\ pc' = "complete"
    /\ UNCHANGED <<lexfiles, lexicon_data, nread, sid, cur, ti, out, done>>

----------------------------------------------------------------------------
(* train-crf.py: instances, reading what process_file wrote *)

\* The text of the output is a sequence of cells: a character, or a piece
\* of text that holds no tab and no newline (the digits of an offset, a tag, a
\* feature name, the letters of an id).
Ch(c) == [kind |-> "char", c |-> c, n |-> 0]
Str(x) == [kind |-> "str", c |-> x, n |-> 0]
Num(z) == [kind |-> "int", c |-> "", n |-> z]
Tab == Ch("\t")
Newline == Ch("\n")

chars(t) == [j \in DOMAIN t |-> Ch(t[j])]

\* the ids of the input, as the text written for them
TabbedId == "s\t1"
sid_text(sentence_id) ==
    IF sentence_id = TabbedId THEN <<Str("s"), Tab, Str("1")>> ELSE <<Str(sentence_id)>>

\* str(f) of a feature
feature_text(f) == IF f.eq THEN <<Str(f.name), Ch("=")>> \o chars(f.value) ELSE <<Str(f.name)>>

\* '\t'.join(sanitized_features)
RECURSIVE join_tab(_)
join_tab(fs) ==
    IF fs = <<>> THEN <<>>
    ELSE IF Len(fs) = 1 THEN feature_text(fs[1])
    ELSE feature_text(Head(fs)) \o <<Tab>> \o join_tab(Tail(fs))

\* main.py lines 113 and 119: the text that outfile.write receives for a line
line_text(l) ==
    IF l[1] = "blank" THEN <<Newline>>
    ELSE sid_text(l[2]) \o <<Tab>> \o chars(l[3]) \o <<Tab, Num(l[4]), Tab, Num(l[5]), Tab,
                                                        Str(l[6]), Tab>>
         \o join_tab(l[7]) \o <<Newline>>

RECURSIVE output_text(_)
output_text(lines) ==
    IF lines = <<>> THEN <<>> ELSE line_text(Head(lines)) \o output_text(Tail(lines))

\* str.split(sep) for a single character sep
split(text, sep) ==
    LET at == {i \in DOMAIN text : text[i] = sep}
        pos(k) == CHOOSE i \in at : Cardinality({j \in at : j < i}) = k - 1
        n == Cardinality(at)
    IN [k \in 1..(n + 1) |->
           SubSeq(text, IF k = 1 THEN 1 ELSE pos(k - 1) + 1,
                        IF k = n + 1 THEN Len(text) ELSE pos(k) - 1)]

\* 'for line in fi': the lines of the text, each with its newline; text
\* after the last newline is a last line without one
file_lines(text) ==
    LET pieces == split(text, Newline)
        ended == [k \in 1..(Len(pieces) - 1) |-> Append(pieces[k], Newline)]
    IN IF pieces[Len(pieces)] = <<>> THEN ended ELSE Append(ended, pieces[Len(pieces)])

\* line.strip('\n')
strip_newlines(line) ==
    LET kept == {i \in DOMAIN line : line[i] # Newline}
    IN IF kept = {} THEN <<>>
       ELSE SubSeq(line, CHOOSE i \in kept : \A j \in kept : i <= j,
                         CHOOSE i \in kept : \A j \in kept : j <= i)

\* lines 9-32: the (xseq, yseq) pairs yielded for the lines, in order, or
\* that fields[4] raised IndexError; a sequence left without its blank line
\* at the end of the input is not yielded
RECURSIVE instances_loop(_, _, _, _)
instances_loop(lines, xseq, yseq, yielded) ==
    IF lines = <<>> THEN [raised |-> FALSE, pairs |-> yielded]
    ELSE LET line == strip_newlines(Head(lines))
         IN IF line = <<>>
            THEN instances_loop(Tail(lines), <<>>, <<>>,
                                Append(yielded, [xseq |-> xseq, yseq |-> yseq]))
            ELSE LET fields == split(line, Tab)
                 IN IF Len(fields) < 5 THEN [raised |-> TRUE, pairs |-> yielded]
                    ELSE instances_loop(Tail(lines),
                                        Append(xseq, SubSeq(fields, 6, Len(fields))),
                                        Append(yseq, fields[5]), yielded)

instances(fi) == instances_loop(file_lines(fi), <<>>, <<>>, <<>>)

\* the input of a run whose output is read by the trainer
TrainSentenceIds == {"s1", TabbedId, ""}
TrainTexts == {<<"a", " ", "a">>, <<>>}
TrainSentences == SentencesOf(TrainSentenceIds, TrainTexts)

----------------------------------------------------------------------------
(* The character-level generator and the escaping, applied on their own *)

MaxTokLen == 3      \* longest token given to the character-level generator
MaxFeatLen == 3     \* longest feature string escaped

CaseAlphabet == {"A", "a", "1", "-"}
CaseTokens == SeqsUpTo(CaseAlphabet, MaxTokLen) \ {<<>>}

CharInit ==
    /\ ctok \in CaseTokens
    /\ tokenFeatures = <<>>
    /\ cpc = "call"

CharIdle == ctok = <<>> /\ tokenFeatures = <<>> /\ cpc = "idle"

ExtractCharacterFeatures ==
    /\ cpc = "call"
    /\ \E db \in DrugBankFiles :
          LET affixes == extract_affixes(load_drugbank(db).drugbank_lexicon)
          IN tokenFeatures' = extract_character_features(ctok, chemical_patterns,
                                                         affixes.common_drug_prefixes,
                                                         affixes.common_drug_suffixes)
    /\ cpc' = "done"
    /\ UNCHANGED ctok

EscAlphabet == {"\t", "\n", "\\", "n", "t"}

\* the consumer's inverse mapping: backslash-n to newline, backslash-t to tab
RECURSIVE unescape(_)
unescape(s) ==
    IF s = <<>> THEN <<>>
    ELSE IF Len(s) >= 2 /\ s[1] = "\\" /\ s[2] = "n"
         THEN <<"\n">> \o unescape(SubSeq(s, 3, Len(s)))
    ELSE IF Len(s) >= 2 /\ s[1] = "\\" /\ s[2] = "t"
         THEN <<"\t">> \o unescape(SubSeq(s, 3, Len(s)))
    ELSE <<Head(s)>> \o unescape(Tail(s))

EscInit ==
    /\ fstr \in SeqsUpTo(EscAlphabet, MaxFeatLen)
    /\ escaped = <<>>
    /\ unescaped = <<>>
    /\ epc = "call"

EscIdle == fstr = <<>> /\ escaped = <<>> /\ unescaped = <<>> /\ epc = "idle"

\* main.py line 107, for one feature string
Sanitize ==
    /\ epc = "call"
    /\ escaped' = sanitize(fstr)
    /\ epc' = "escaped"
    /\ UNCHANGED <<fstr, unescaped>>

Unescape ==
    /\ epc = "escaped"
    /\ unescaped' = unescape(escaped)
    /\ epc' = "done"
    /\ UNCHANGED <<fstr, escaped>>

----------------------------------------------------------------------------
(* extract_features of both pipelines, applied on its own *)

MaxFeatTokens == 3      \* longest token sequence given to extract_features

FeatForms == {<<"a">>, <<"A", "s">>, <<"a", "e", "s">>, <<"a", ".">>}

\* the tokens of a sentence whose forms are separated by single spaces
RECURSIVE tokens_at(_, _)
tokens_at(forms, offset) ==
    IF forms = <<>> THEN <<>>
    ELSE <<<<Head(forms), offset, offset + Len(Head(forms)) - 1>>>>
         \o tokens_at(Tail(forms), offset + Len(Head(forms)) + 1)

FeatTokenSeqs == {tokens_at(forms, 0) : forms \in SeqsUpTo(FeatForms, MaxFeatTokens)}

\* a DrugBank.txt without the entry "a": "as" and "eeeee|drug"
Eeeee == <<"e", "e", "e", "e", "e">>
DrugBankWithoutA == << << <<"a", "s">> >>, <<Eeeee, "drug">> >>
FeatFiles == [drugbank : DrugBankFiles \cup {DrugBankWithoutA}, hsdb : HSDBFiles]
NoFeatFiles == [drugbank |-> <<>>, hsdb |-> <<>>]

\* What nltk.pos_tag may do for a sentence, more widely: raise, or return a
\* pair for every token or for all but the last, the tag of a pair being
\* possibly empty.
PosTagsWide == {"NN", ""}
PosAnswersWide(token_texts) ==
    {[raised |-> TRUE, tagged |-> <<>>]} \cup
    UNION {{[raised |-> FALSE, tagged |-> [j \in 1..n |-> <<token_texts[j], tg[j]>>]]
            : tg \in [1..n -> PosTagsWide]}
           : n \in {m \in {Len(token_texts) - 1, Len(token_texts)} : m >= 0}}
NoAnswer == [raised |-> FALSE, tagged |-> <<>>]

FeatInit ==
    /\ ffiles \in FeatFiles
    /\ ftokens \in FeatTokenSeqs
    /\ fanswer \in PosAnswersWide([k \in DOMAIN ftokens |-> ftokens[k][1]])
    /\ fbundle = load_resources(ffiles.drugbank, ffiles.hsdb, NoEmbeddings)
    /\ all_features = <<>>
    /\ fpc = "call"

FeatIdle ==
    /\ ffiles = NoFeatFiles /\ ftokens = <<>> /\ fanswer = NoAnswer
    /\ fbundle = NoResources /\ all_features = <<>> /\ fpc = "idle"

\* extract-features.py has been loaded for its first run
LegacyInit ==
    /\ legacy_globals \in legacy_load(ffiles.drugbank, ffiles.hsdb)
    /\ legacy_result = <<>>
    /\ previous_result = <<>>
    /\ run = 1
    /\ lpc = "call"

LegacyIdle ==
    /\ legacy_globals = NoResources /\ legacy_result = <<>> /\ previous_result = <<>>
    /\ run = 0 /\ lpc = "idle"

ExtractFeatures ==
    /\ fpc = "call"
    /\ all_features' = extract_features(ftokens, fbundle, fanswer)
    /\ fpc' = "done"
    /\ UNCHANGED <<ffiles, ftokens, fanswer, fbundle>>

LegacyExtractFeatures ==
    /\ lpc = "call"
    /\ legacy_result' = legacy_extract_features(ftokens, legacy_globals)
    /\ lpc' = "done"
    /\ UNCHANGED <<legacy_globals, previous_result, run>>

\* the script is run a second time on the same files and the same sentence:
\* the module-level code builds the globals again
LegacyRerun ==
    /\ lpc = "done" /\ run = 1
    /\ legacy_globals' \in legacy_load(ffiles.drugbank, ffiles.hsdb)
    /\ previous_result' = legacy_result
    /\ legacy_result' = <<>>
    /\ run' = 2
    /\ lpc' = "call"

\* An HSDB.txt with one short entry more than the sample of short_drugs_hsdb
\* holds: the five-letter strings number 0 .. SampleSizeHSDB over a, e, n, s, t
Letters == <<"a", "e", "n", "s", "t">>
Entry(n) ==
    <<Letters[((n \div 625) % 5) + 1], Letters[((n \div 125) % 5) + 1],
      Letters[((n \div 25) % 5) + 1], Letters[((n \div 5) % 5) + 1], Letters[(n % 5) + 1]>>
BigHSDBFile == [n \in 1..(SampleSizeHSDB + 1) |-> Entry(n - 1)]
BigFiles == [drugbank : DrugBankFiles, hsdb : {BigHSDBFile}]
LegacyTokenSeqs == {tokens_at(<<Entry(0)>>, 0), tokens_at(<<Entry(1), Entry(0)>>, 0)}

LegacyRunsInit ==
    /\ ffiles \in BigFiles
    /\ ftokens \in LegacyTokenSeqs
    /\ fanswer = NoAnswer
    /\ fbundle = NoResources
    /\ all_features = <<>>
    /\ fpc = "idle"
    /\ LegacyInit

----------------------------------------------------------------------------
(* get_embedding_features applied on its own *)

MaxEmbLen == 2      \* longest embedding vector in the map

EmbComponents ==
    {Finite(h) : h \in {-250, -101, -100, -61, -60, -1, 0, 50, 99, 100, 101, 250}}
    \cup {PosInf, NegInf, NaN}
EmbVectors == UNION {[1..n -> EmbComponents] : n \in 1..MaxEmbLen}
EmbTokens == {<<"a">>, <<"A">>, <<"e">>}
EmbDimensions == {1, EmbeddingDim}

EmbInit ==
    /\ emb_token \in EmbTokens
    /\ emb_map \in {[w \in {<<"a">>} |-> v] : v \in EmbVectors}
    /\ emb_dimension \in EmbDimensions
    /\ emb_result = Returned(<<>>)
    /\ emb_pc = "call"

EmbIdle ==
    /\ emb_token = <<>> /\ emb_map = NoEmbeddings /\ emb_dimension = 0
    /\ emb_result = Returned(<<>>) /\ emb_pc = "idle"

GetEmbeddingFeatures ==
    /\ emb_pc = "call"
    /\ emb_result' = IF embedding_raises(emb_token, emb_map, emb_dimension) THEN Raised
                     ELSE Returned(get_embedding_features(emb_token, emb_map, emb_dimension,
                                                          EmbeddingBins))
    /\ emb_pc' = "done"
    /\ UNCHANGED <<emb_token, emb_map, emb_dimension>>

----------------------------------------------------------------------------
(* tokenize and get_tag applied to a whole sentence *)

\* main.py lines 74 and 93, extract-features.py lines 306 and 313: every
\* token of the sentence is tagged against the sentence's span list
AlignSpanLists == SeqsUpTo(SpanSet, 1)

AlignInit ==
    /\ align_text \in Texts
    /\ align_wt \in word_tokenize(align_text)
    /\ align_spans \in AlignSpanLists
    /\ align_tokens = <<>>
    /\ align_tags = <<>>
    /\ align_pc = "call"

AlignIdle ==
    /\ align_text = <<>> /\ align_wt = <<>> /\ align_spans = <<>>
    /\ align_tokens = <<>> /\ align_tags = <<>> /\ align_pc = "idle"

TagSentence ==
    /\ align_pc = "call"
    /\ LET tokens == tokenize(align_text, align_wt)
       IN /\ align_tokens' = tokens
          /\ align_tags' = [k \in DOMAIN tokens |-> get_tag(tokens[k], align_spans)]
    /\ align_pc' = "done"
    /\ UNCHANGED <<align_text, align_wt, align_spans>>

----------------------------------------------------------------------------
(* drug_n_features.py: load_drug_n_lexicon *)

\* a module-level cache: None, or the value it holds
None == [is_none |-> TRUE, v |-> {}]
Some(x) == [is_none |-> FALSE, v |-> x]

\* str.lstrip(chars) and str.strip(chars)
RECURSIVE lstrip(_, _)
lstrip(s, cs) == IF s # <<>> /\ s[1] \in cs THEN lstrip(Tail(s), cs) ELSE s
strip(s, cs) == lstrip(rstrip(s, cs), cs)

Whitespace == {" ", "\t", "\n"}

\* known_drug_n of the file and read-error branches (lines 86-92, 134-140)
known_drug_n ==
    {<<"c", "y", "t", "o", "c", "h", "a", "l", "a", "s", "i", "n", " ", "d">>,
     <<"b", "u", "f", "o", "r", "i", "n", " ", "i", "i">>,
     <<"3", "-", "d", "e", "a", "z", "a", "n", "e", "p", "l", "a", "n", "o", "c", "i", "n", " ", "a">>,
     <<"a", "l", "p", "h", "a", " ", "l", "i", "p", "o", "i", "c", " ", "a", "c", "i", "d">>,
     <<"d", "i", "e", "p", "o", "x", "y", "b", "u", "t", "a", "n", "e">>,
     <<"1", ",", "2", ":", "3", ",", "4", "-", "d", "i", "e", "p", "o", "x", "y", "b", "u", "t", "a", "n", "e">>,
     <<"1", "-", "m", "e", "t", "h", "y", "l", "-", "4", "-", "p", "h", "e", "n", "y", "l", "-", "1", ",", "2", ",", "5", ",", "6", "-", "t", "e", "t", "r", "a", "h", "y", "d", "r", "o", "p", "y", "r", "i", "d", "i", "n", "e">>,
     <<"m", "p", "t", "p">>, <<"c", "i", "m", "e", "t", "i", "d", "i", "n", "e">>,
     <<"o", "x", "y", "g", "e", "n">>, <<"h", "e", "r", "o", "i", "n">>, <<"c", "p", "k">>,
     <<"a", "c", "t", "i", "v", "a", "t", "e", "d", " ", "c", "h", "a", "r", "c", "o", "a", "l">>,
     <<"a", "n", "g", "i", "o", "t", "e", "n", "s", "i", "n", " ", "i", "i">>,
     <<"s", "p", "a", "r", "i", "n", "e">>, <<"z", "e">>, <<"f", "b", "s">>, <<"c", "p">>}

\* known_drug_n of the branch taken when no file is found (lines 57-68)
known_drug_n_without_file ==
    known_drug_n \cup
    {<<"s", "c", "h", "-", "2", "3", "3", "9", "0">>, <<"d", "z", "n", "e", "p">>,
     <<"d", "e", "s", "a", "c", "e", "t", "y", "l", "d", "i", "l", "t", "i", "a", "z", "e", "m">>,
     <<"d", "e", "s", "m", "e", "t", "h", "y", "l", "d", "i", "l", "t", "i", "a", "z", "e", "m">>,
     <<"d", "e", "h", "y", "d", "r", "o", "a", "r", "i", "p", "i", "p", "r", "a", "z", "o", "l", "e">>,
     <<"d", "a", "p", "s", "o", "n", "e", " ", "h", "y", "d", "r", "o", "x", "y", "l", "a", "m", "i", "n", "e">>,
     <<"a", "b", "t", "-", "7", "3", "7">>,
     <<"l", "e", "u", "k", "o", "c", "y", "t", "e", " ", "t", "r", "a", "n", "s", "f", "u", "s", "i", "o", "n", "s">>,
     <<"t", "i", "r", "z", "e", "p", "a", "t", "i", "d", "e">>,
     <<"d", "u", "l", "a", "g", "l", "u", "t", "i", "d", "e">>,
     <<"f", "l", "o", "r", "b", "e", "t", "a", "p", "i", "r">>,
     <<"i", "n", "s", "u", "l", "i", "n">>, <<"m", "e", "t", "f", "o", "r", "m", "i", "n">>,
     <<"a", "t", "o", "r", "v", "a", "s", "t", "a", "t", "i", "n">>,
     <<"a", "c", "e", "t", "a", "m", "i", "n", "o", "p", "h", "e", "n">>,
     <<"i", "b", "u", "p", "r", "o", "f", "e", "n">>}

DrugNShortMin == 3
DrugNShortMax == 15
DrugNShortCap == 5000
IndexKeyLen == 3

\* set(list(short)[:5000]): which entries a set lists first follows the string
\* hashes, so any DrugNShortCap of them can be the ones kept
short_drug_n_subsets(drug_n_lexicon) ==
    LET short == {drug \in drug_n_lexicon :
                      DrugNShortMin <= Len(drug) /\ Len(drug) <= DrugNShortMax}
    IN IF Cardinality(short) > DrugNShortCap THEN subsets_of_size(short, DrugNShortCap)
       ELSE {short}

\* _prefix_index and _suffix_index: the entries under a key are only ever
\* scanned for some matching one, so they are kept as a set
build_prefix_index(short) ==
    LET indexed == {drug \in short : Len(drug) >= IndexKeyLen}
    IN [key \in {Prefix(drug, IndexKeyLen) : drug \in indexed} |->
           {drug \in indexed : Prefix(drug, IndexKeyLen) = key}]
build_suffix_index(short) ==
    LET indexed == {drug \in short : Len(drug) >= IndexKeyLen}
    IN [key \in {Suffix(drug, IndexKeyLen) : drug \in indexed} |->
           {drug \in indexed : Suffix(drug, IndexKeyLen) = key}]

\* what is found at the path load_drug_n_lexicon settles on: no file, a file
\* whose reading raises, or a file with these lines
NoDrugNFile == [exists |-> FALSE, readable |-> FALSE, lines |-> <<>>]
UnreadableDrugNFile == [exists |-> TRUE, readable |-> FALSE, lines |-> <<>>]
DrugNFile(lines) == [exists |-> TRUE, readable |-> TRUE, lines |-> lines]

\* set(line.strip().lower() for line in f if line.strip())
read_drug_n_lines(lines) ==
    {lower(strip(lines[j], Whitespace)) : j \in {i \in DOMAIN lines : strip(lines[i], Whitespace) # <<>>}}

DrugCache ==
    [lexicon |-> _drug_n_lexicon, short |-> _short_drug_n_lexicon,
     prefix |-> _prefix_index, suffix |-> _suffix_index]

\* a load that ignores the cache and reads the file again
load_drug_n_lexicon_reloads(file, cache) ==
    IF ~file.exists THEN
        {[cache |-> [cache EXCEPT !.lexicon = Some(known_drug_n_without_file),
                                  !.short = Some(known_drug_n_without_file)],
          result |-> known_drug_n_without_file]}
    ELSE IF ~file.readable THEN
        {[cache |-> [cache EXCEPT !.lexicon = Some(known_drug_n), !.short = Some(known_drug_n)],
          result |-> known_drug_n]}
    ELSE
        LET drug_n_lexicon == read_drug_n_lines(file.lines) \cup known_drug_n
        IN {[cache |-> [lexicon |-> Some(drug_n_lexicon), short |-> Some(short),
                        prefix |-> Some(build_prefix_index(short)),
                        suffix |-> Some(build_suffix_index(short))],
             result |-> drug_n_lexicon] : short \in short_drug_n_subsets(drug_n_lexicon)}

\* load_drug_n_lexicon(filepath): the caches it leaves and the set it returns,
\* one outcome for every subset the cap can keep
load_drug_n_lexicon(file, cache) ==
    IF ~cache.lexicon.is_none THEN {[cache |-> cache, result |-> cache.lexicon.v]}
    ELSE IF ~file.exists THEN
        {[cache |-> [cache EXCEPT !.lexicon = Some(known_drug_n_without_file),
                                  !.short = Some(known_drug_n_without_file)],
          result |-> known_drug_n_without_file]}
    ELSE IF ~file.readable THEN
        {[cache |-> [cache EXCEPT !.lexicon = Some(known_drug_n), !.short = Some(known_drug_n)],
          result |-> known_drug_n]}
    ELSE
        LET drug_n_lexicon == read_drug_n_lines(file.lines) \cup known_drug_n
        IN {[cache |-> [lexicon |-> Some(drug_n_lexicon), short |-> Some(short),
                        prefix |-> Some(build_prefix_index(short)),
                        suffix |-> Some(build_suffix_index(short))],
             result |-> drug_n_lexicon] : short \in short_drug_n_subsets(drug_n_lexicon)}

----------------------------------------------------------------------------
(* drug_n_features.py: compile_drug_n_patterns and the regular expressions *)

\* [a-z] under (?i), \d and \w
re_letter(c) == char_isalpha(c)
re_digit(c) == char_isdigit(c)
re_word(c) == char_isalnum(c) \/ c = "_"

\* the alternatives of the eight patterns, in the order of the list
NameSuffixes ==
    {<<"i", "n">>, <<"o", "l">>, <<"i", "n", "e">>, <<"i", "d", "e">>, <<"a", "t", "e">>,
     <<"i", "u", "m">>, <<"o", "n", "e">>, <<"a", "s", "e">>, <<"a", "m", "i", "n", "e">>,
     <<"a", "m", "i", "d", "e">>, <<"a", "z", "o", "l", "e">>, <<"i", "c", "i", "n">>,
     <<"m", "y", "c", "i", "n">>, <<"o", "x", "a", "c", "i", "n">>,
     <<"c", "i", "l", "l", "i", "n">>, <<"c", "y", "c", "l", "i", "n", "e">>,
     <<"d", "i", "p", "i", "n", "e">>, <<"p", "r", "i", "l">>, <<"s", "a", "r", "t", "a", "n">>,
     <<"s", "t", "a", "t", "i", "n">>, <<"z", "e", "p", "a", "m">>, <<"z", "o", "l", "a", "m">>,
     <<"p", "r", "a", "z", "o", "l", "e">>, <<"o", "x", "e", "t", "i", "n", "e">>,
     <<"a", "z", "e", "p", "a", "m">>, <<"o", "r", "i", "d", "e">>, <<"x", "i", "d", "e">>,
     <<"o", "x", "i", "d", "e">>, <<"m", "a", "b">>, <<"n", "i", "b">>, <<"r", "i", "d", "e">>,
     <<"o", "l", "e">>, <<"r", "a", "n", "t">>, <<"a", "n", "t">>}
SaltWords ==
    {<<"a", "c", "i", "d">>, <<"s", "a", "l", "t">>, <<"s", "o", "d", "i", "u", "m">>,
     <<"c", "h", "l", "o", "r", "i", "d", "e">>, <<"s", "u", "l", "f", "a", "t", "e">>,
     <<"p", "h", "o", "s", "p", "h", "a", "t", "e">>}
InnStems ==
    {<<"c", "e", "f">>, <<"d", "o", "p", "a">>, <<"m", "a", "b">>, <<"n", "i", "b">>,
     <<"p", "r", "i", "l">>, <<"s", "a", "r", "t", "a", "n">>, <<"t", "i", "n", "i", "b">>,
     <<"v", "a", "s", "t", "a", "t", "i", "n">>, <<"p", "r", "a", "z", "o", "l", "e">>,
     <<"a", "c", "e">>, <<"d", "e", "x">>, <<"f", "l", "u">>, <<"m", "e", "t">>,
     <<"h", "y", "d">>, <<"c", "a", "r">>, <<"l", "e", "v">>, <<"c", "a", "l">>,
     <<"c", "h", "l">>, <<"a", "m", "l">>}
CompoundWords ==
    {<<"s", "o", "d", "i", "u", "m">>, <<"p", "o", "t", "a", "s", "s", "i", "u", "m">>,
     <<"c", "a", "l", "c", "i", "u", "m">>, <<"m", "a", "g", "n", "e", "s", "i", "u", "m">>,
     <<"c", "h", "l", "o", "r", "i", "d", "e">>, <<"s", "u", "l", "f", "a", "t", "e">>,
     <<"p", "h", "o", "s", "p", "h", "a", "t", "e">>}
DerivativePrefixes ==
    {<<"d", "e", "s">>, <<"d", "i">>, <<"t", "r", "i">>, <<"t", "e", "t", "r", "a">>,
     <<"d", "e">>, <<"h", "y", "d", "r", "o">>, <<"h", "y", "d", "r", "o", "x", "y">>,
     <<"m", "e", "t", "h", "y", "l">>, <<"e", "t", "h", "y", "l">>,
     <<"p", "r", "o", "p", "y", "l">>, <<"b", "u", "t", "y", "l">>}
FdaPrefixes ==
    {<<"a", "c", "e">>, <<"c", "a", "l">>, <<"a", "c", "o">>, <<"a", "r", "n">>,
     <<"a", "n", "t">>, <<"a", "p", "i">>, <<"a", "r", "s">>, <<"a", "v", "o">>,
     <<"d", "e", "x">>, <<"c", "a", "r">>}

MinLettersBeforeSalt == 4

\* [A-Za-z]+-\d+ or \d+-[A-Za-z]+ somewhere in tk (also pattern 4, whose
\* [a-z] is case-insensitive)
has_alphanumeric_hyphen(tk) ==
    \E i \in 2..(Len(tk) - 1) :
        /\ tk[i] = "-"
        /\ \/ re_letter(tk[i - 1]) /\ re_digit(tk[i + 1])
           \/ re_digit(tk[i - 1]) /\ re_letter(tk[i + 1])

\* a blank at position i, then one or more characters of numerals, then a
\* word boundary
numeral_run_at(tk, i, numerals) ==
    /\ i < Len(tk) /\ tk[i] = " "
    /\ \E k \in (i + 1)..Len(tk) :
           /\ \A j \in (i + 1)..k : tk[j] \in numerals
           /\ k = Len(tk) \/ ~re_word(tk[k + 1])

\* pattern.search(tk) for the pattern at index p of the compiled list
drug_n_pattern_search(p, tk) ==
    LET low == lower(tk)
        before(e) == Len(tk) - Len(e)        \* the characters before a final e
    IN CASE p = 0 -> \E e \in NameSuffixes : EndsWith(low, e)
         [] p = 1 -> \E e \in SaltWords :
                        /\ EndsWith(low, e) /\ before(e) >= MinLettersBeforeSalt
                        /\ \A j \in (before(e) - MinLettersBeforeSalt + 1)..before(e) :
                               re_letter(tk[j])
         [] p = 2 -> \E e \in InnStems : in_str(e, low)
         [] p = 3 -> \E e \in CompoundWords :
                        EndsWith(low, e) /\ before(e) >= 1 /\ re_letter(tk[before(e)])
         [] p = 4 -> has_alphanumeric_hyphen(tk)
         [] p = 5 -> \E i \in 2..Len(tk) :
                        re_letter(tk[i - 1]) /\ numeral_run_at(tk, i, {"I", "V", "i", "v"})
         [] p = 6 -> \E e \in DerivativePrefixes : \E i \in 0..Len(tk) :
                        /\ OccursAt(low, e, i) /\ i + Len(e) < Len(tk)
                        /\ re_letter(tk[i + Len(e) + 1])
         [] p = 7 -> \E e \in FdaPrefixes :
                        /\ OccursAt(low, e, 0) /\ Len(e) < Len(tk)
                        /\ re_letter(tk[Len(e) + 1])

PatternCount == 8

\* the compiled list, each pattern named by its index
patterns == [j \in 1..PatternCount |-> j - 1]

\* compile_drug_n_patterns(): the cached list, or the list it caches
compile_drug_n_patterns(cached) == IF ~cached.is_none THEN cached.v ELSE patterns

----------------------------------------------------------------------------
(* drug_n_features.py: partial_match_drug_n and extract_drug_n_features *)

MinNormalizedLen == 3
MinCapitalizedLen == 3
MaxLenDiff == 3

abs(z) == IF z < 0 THEN -z ELSE z
startswith(s, p) == OccursAt(s, p, 0)

\* token[0].isupper() and any(c.islower() for c in token) and len(token) > 3,
\* with a blank or a hyphen in the token
capitalized_multiword(tk) ==
    /\ char_isupper(tk[1])
    /\ \E j \in DOMAIN tk : char_islower(tk[j])
    /\ Len(tk) > MinCapitalizedLen
    /\ \E j \in DOMAIN tk : tk[j] \in {" ", "-"}

\* the prefix lookup of partial_match_drug_n without the length filter
prefix_lookup_any_length(t_lower, prefix_index) ==
    LET prefix == Prefix(t_lower, IndexKeyLen)
    IN /\ prefix \in DOMAIN prefix_index
       /\ \E drug \in prefix_index[prefix] : startswith(t_lower, drug) \/ startswith(drug, t_lower)

\* lines 241-246
prefix_lookup(t_lower, prefix_index) ==
    LET prefix == Prefix(t_lower, IndexKeyLen)
    IN /\ prefix \in DOMAIN prefix_index
       /\ \E drug \in prefix_index[prefix] :
              /\ startswith(t_lower, drug) \/ startswith(drug, t_lower)
              /\ abs(Len(drug) - Len(t_lower)) <= MaxLenDiff

\* lines 249-254
suffix_lookup(t_lower, suffix_index) ==
    LET suffix == Suffix(t_lower, IndexKeyLen)
    IN /\ suffix \in DOMAIN suffix_index
       /\ \E drug \in suffix_index[suffix] :
              /\ EndsWith(t_lower, drug) \/ EndsWith(drug, t_lower)
              /\ abs(Len(drug) - Len(t_lower)) <= MaxLenDiff

\* partial_match_drug_n(token, drug_n_lexicon, drug_n_patterns), reading the
\* two module-level indexes
partial_match_drug_n(tk, drug_n_lexicon, drug_n_patterns) ==
    LET t_lower == strip(lower(tk), TrailingPunct)
    IN IF Len(t_lower) < MinNormalizedLen THEN FALSE
       ELSE IF t_lower \in drug_n_lexicon THEN TRUE
       ELSE IF \E j \in DOMAIN drug_n_patterns : drug_n_pattern_search(drug_n_patterns[j], tk)
            THEN TRUE
       ELSE IF capitalized_multiword(tk) THEN TRUE
       ELSE IF ~_prefix_index.is_none /\ ~_suffix_index.is_none
               /\ (prefix_lookup(t_lower, _prefix_index.v)
                   \/ suffix_lookup(t_lower, _suffix_index.v))
            THEN TRUE
       ELSE FALSE

important_suffixes ==
    <<[text |-> "in", s |-> <<"i", "n">>],
      [text |-> "ol", s |-> <<"o", "l">>],
      [text |-> "ine", s |-> <<"i", "n", "e">>],
      [text |-> "ide", s |-> <<"i", "d", "e">>],
      [text |-> "ate", s |-> <<"a", "t", "e">>],
      [text |-> "mab", s |-> <<"m", "a", "b">>],
      [text |-> "nib", s |-> <<"n", "i", "b">>],
      [text |-> "pril", s |-> <<"p", "r", "i", "l">>],
      [text |-> "sartan", s |-> <<"s", "a", "r", "t", "a", "n">>],
      [text |-> "statin", s |-> <<"s", "t", "a", "t", "i", "n">>]>>
important_prefixes ==
    <<[text |-> "ace", s |-> <<"a", "c", "e">>],
      [text |-> "dex", s |-> <<"d", "e", "x">>],
      [text |-> "met", s |-> <<"m", "e", "t">>],
      [text |-> "hyd", s |-> <<"h", "y", "d">>]>>
known_problematic ==
    {<<"m", "p", "t", "p">>, <<"c", "p">>, <<"c", "p", "k">>, <<"f", "b", "s">>, <<"z", "e">>,
     <<"o", "x", "y", "g", "e", "n">>, <<"h", "e", "r", "o", "i", "n">>,
     <<"s", "p", "a", "r", "i", "n", "e">>, <<"b", "u", "f", "o", "r", "i", "n">>,
     <<"c", "y", "t", "o", "c", "h", "a", "l", "a", "s", "i", "n">>}

MinFeatureTokenLen == 3
AffixMargin == 2
AbbreviationMin == 2
AbbreviationMax == 5
TypicalLenMin == 3
TypicalLenMax == 15
PatternDigits == <<"0", "1", "2", "3", "4", "5", "6", "7">>

\* whether some digits, then sep, then some digits occur in tk
digits_around(tk, sep) ==
    \E i \in 2..(Len(tk) - 1) : tk[i] = sep /\ re_digit(tk[i - 1]) /\ re_digit(tk[i + 1])

\* len(token.split()) >= 2: two runs of non-blank characters
has_two_words(tk) ==
    \E i, j \in DOMAIN tk :
        i < j /\ tk[i] \notin Whitespace /\ tk[j] \notin Whitespace
        /\ \E k \in (i + 1)..(j - 1) : tk[k] \in Whitespace

\* the first entry of list that holds, as a one-element list, or nothing
first_hit(hits) == IF hits = {} THEN <<>> ELSE <<Min(hits)>>

\* extract_drug_n_features(token, drug_n_lexicon, drug_n_patterns)
extract_drug_n_features(tk, drug_n_lexicon, drug_n_patterns) ==
    IF Len(tk) < MinFeatureTokenLen THEN <<>>
    ELSE
    LET t_lower == lower(tk)
        t_normalized == strip(t_lower, TrailingPunct)
        pattern_hit == first_hit({j \in DOMAIN drug_n_patterns :
                                      drug_n_pattern_search(drug_n_patterns[j], tk)})
        suffix_hit == first_hit({j \in DOMAIN important_suffixes :
                                     /\ EndsWith(t_normalized, important_suffixes[j].s)
                                     /\ Len(t_normalized) >
                                            Len(important_suffixes[j].s) + AffixMargin})
        prefix_hit == first_hit({j \in DOMAIN important_prefixes :
                                     /\ startswith(t_normalized, important_prefixes[j].s)
                                     /\ Len(t_normalized) >
                                            Len(important_prefixes[j].s) + AffixMargin})
    IN (IF t_normalized \in drug_n_lexicon
        THEN <<Feat("exactDrugNMatch", True), Feat("drugNLexiconMatch", True),
               Feat("partialDrugNMatch", True)>>
        ELSE If(partial_match_drug_n(tk, drug_n_lexicon, drug_n_patterns),
                <<Feat("partialDrugNMatch", True)>>))
       \o If(pattern_hit # <<>>,
             <<Feat("drugNPattern" \o PatternDigits[pattern_hit[1]], True),
               Feat("drugNPatternMatch", True)>>)
       \o If(suffix_hit # <<>>,
             <<Feat("drugNSuffix_" \o important_suffixes[suffix_hit[1]].text, True),
               Feat("drugNHasCommonSuffix", True)>>)
       \o If(prefix_hit # <<>>,
             <<Feat("drugNPrefix_" \o important_prefixes[prefix_hit[1]].text, True),
               Feat("drugNHasCommonPrefix", True)>>)
       \o If(char_isupper(tk[1]), <<Feat("drugNCapitalized", True)>>)
       \o If(\E j \in DOMAIN tk : tk[j] = "-",
             <<Feat("drugNHasHyphen", True)>>
             \o If(has_alphanumeric_hyphen(tk), <<Feat("drugNHasAlphanumericHyphen", True)>>))
       \o If(\E i \in DOMAIN tk : numeral_run_at(tk, i, {"I", "V"}),
             <<Feat("drugNHasRomanNumeral", True)>>)
       \o If(digits_around(tk, ",") \/ digits_around(tk, ":"),
             <<Feat("drugNHasChemicalPattern", True)>>)
       \o If(isupper(tk) /\ AbbreviationMin <= Len(tk) /\ Len(tk) <= AbbreviationMax,
             <<Feat("drugNIsAbbreviation", True)>>)
       \o If(\E prob \in known_problematic : in_str(prob, t_lower),
             <<Feat("drugNKnownEntity", True)>>)
       \o If(TypicalLenMin <= Len(t_normalized) /\ Len(t_normalized) <= TypicalLenMax,
             <<Feat("drugNTypicalLength", True)>>)
       \o If((\E j \in DOMAIN tk : re_letter(tk[j])) /\ (\E j \in DOMAIN tk : re_digit(tk[j])),
             <<Feat("drugNMixedWithNumbers", True)>>)
       \o If((\E j \in DOMAIN tk : tk[j] = " ") /\ has_two_words(tk),
             <<Feat("drugNMultiWord", True)>>)

----------------------------------------------------------------------------
(* the drug_n functions applied to a token after the lexicon was loaded *)

MaxDrugTokLen == 3      \* every token up to this length over DrugAlphabet
MaxLoads == 2           \* calls of load_drug_n_lexicon in one run

DrugAlphabet == {"a", "t", "e", "z", "Z", "-", "1"}
LongDrugTokens ==
    {<<"Z", "a", "-", "a">>, <<"Z", "a", " ", "a">>, <<"Z", "a", "a", "a">>,
     <<"a", " ", "I", "I">>, <<"a", " ", "i", "i">>, <<"a", "a", "a", "a">>,
     <<"t", "a", "a", "a">>, <<"a", "a", "a", "a", "a", "a", "a">>, <<"z", "a", "a", "a", "1">>,
     <<"1", ",", "1", "a">>, <<"Z", "E", "-", ".">>}
DrugTokens == SeqsUpTo(DrugAlphabet, MaxDrugTokLen) \cup LongDrugTokens

\* what a call finds at its filepath
DrugNFiles ==
    {NoDrugNFile, UnreadableDrugNFile,
     DrugNFile(<<<<"A", "a", "a", "a", "a", "a", "a">>>>),
     DrugNFile(<<<<"z", "a", "a", "a", " ">>, <<>>, <<"a", "t", "e">>>>),
     DrugNFile(<<<<"a", "a", "a", "z">>>>)}

NoDrugResult == [matched |-> FALSE, features |-> <<>>]

DrugInit ==
    /\ _drug_n_lexicon = None /\ _short_drug_n_lexicon = None /\ _drug_n_patterns = None
    /\ _prefix_index = None /\ _suffix_index = None
    /\ drug_calls = 0 /\ drug_returned = None
    /\ drug_token \in DrugTokens
    /\ drug_result = NoDrugResult
    /\ drug_pc = "start"

DrugIdle ==
    /\ _drug_n_lexicon = None /\ _short_drug_n_lexicon = None /\ _drug_n_patterns = None
    /\ _prefix_index = None /\ _suffix_index = None
    /\ drug_calls = 0 /\ drug_returned = None
    /\ drug_token = <<>>
    /\ drug_result = NoDrugResult
    /\ drug_pc = "idle"

\* a call of load_drug_n_lexicon(filepath)
LoadDrugNLexicon ==
    /\ drug_calls < MaxLoads
    /\ \E file \in DrugNFiles : \E o \in load_drug_n_lexicon(file, DrugCache) :
           /\ _drug_n_lexicon' = o.cache.lexicon
           /\ _short_drug_n_lexicon' = o.cache.short
           /\ _prefix_index' = o.cache.prefix
           /\ _suffix_index' = o.cache.suffix
           /\ drug_returned' = Some(o.result)
    /\ drug_calls' = drug_calls + 1
    /\ drug_pc' = "load"
    /\ UNCHANGED <<_drug_n_patterns, drug_token, drug_result>>

\* a call of partial_match_drug_n(token, lexicon) or, once some patterns were
\* compiled, of partial_match_drug_n(token, lexicon, patterns), with the
\* lexicon that load_drug_n_lexicon returned
PartialMatchDrugN ==
    /\ ~drug_returned.is_none
    /\ \E given \in BOOLEAN :
           LET drug_n_patterns == IF given /\ ~_drug_n_patterns.is_none
                                  THEN _drug_n_patterns.v
                                  ELSE compile_drug_n_patterns(_drug_n_patterns)
           IN /\ drug_result' =
                     [matched |-> partial_match_drug_n(drug_token, drug_returned.v,
                                                       drug_n_patterns),
                      features |-> <<>>]
              /\ _drug_n_patterns' = Some(drug_n_patterns)
    /\ drug_pc' = "match"
    /\ UNCHANGED <<_drug_n_lexicon, _short_drug_n_lexicon, _prefix_index, _suffix_index,
                   drug_calls, drug_returned, drug_token>>

\* a call of extract_drug_n_features(token, lexicon, compile_drug_n_patterns())
ExtractDrugNFeatures ==
    /\ ~drug_returned.is_none
    /\ LET drug_n_patterns == compile_drug_n_patterns(_drug_n_patterns)
       IN /\ drug_result' =
                 [matched |-> FALSE,
                  features |-> extract_drug_n_features(drug_token, drug_returned.v,
                                                       drug_n_patterns)]
          /\ _drug_n_patterns' = Some(drug_n_patterns)
    /\ drug_pc' = "features"
    /\ UNCHANGED <<_drug_n_lexicon, _short_drug_n_lexicon, _prefix_index, _suffix_index,
                   drug_calls, drug_returned, drug_token>>

----------------------------------------------------------------------------
(* Specifications *)

\* main(): the resources are loaded, then every sentence of the input is
\* processed in order
Init == PipeInit /\ TokIdle /\ TagIdle /\ CharIdle /\ EscIdle /\ FeatIdle /\ LegacyIdle /\ EmbIdle /\ AlignIdle /\ DrugIdle
Next ==
    \/ SkipSentence /\ UNCHANGED <<tokVars, tagVars, charVars, escVars, featVars, legVars, embVars, alignVars, drugVars>>
    \/ SentenceRaises /\ UNCHANGED <<tokVars, tagVars, charVars, escVars, featVars, legVars, embVars, alignVars, drugVars>>
    \/ BeginSentence /\ UNCHANGED <<tokVars, tagVars, charVars, escVars, featVars, legVars, embVars, alignVars, drugVars>>
    \/ WriteLine /\ UNCHANGED <<tokVars, tagVars, charVars, escVars, featVars, legVars, embVars, alignVars, drugVars>>
    \/ WriteLineFails /\ UNCHANGED <<tokVars, tagVars, charVars, escVars, featVars, legVars, embVars, alignVars, drugVars>>
    \/ EndSentence /\ UNCHANGED <<tokVars, tagVars, charVars, escVars, featVars, legVars, embVars, alignVars, drugVars>>
    \/ Complete /\ UNCHANGED <<tokVars, tagVars, charVars, escVars, featVars, legVars, embVars, alignVars, drugVars>>
Spec == Init /\ [][Next]_vars

\* tokenize applied to every text and every answer of the word tokenizer
InitTok == TokInit /\ TagIdle /\ CharIdle /\ EscIdle /\ PipeIdle /\ FeatIdle /\ LegacyIdle /\ EmbIdle /\ AlignIdle /\ DrugIdle
NextTok == Tokenize /\ UNCHANGED <<tagVars, charVars, escVars, pipeVars, featVars, legVars, embVars, alignVars, drugVars>>
SpecTok == InitTok /\ [][NextTok]_vars

\* get_tag applied to every token and every span list
InitTag == TagInit /\ TokIdle /\ CharIdle /\ EscIdle /\ PipeIdle /\ FeatIdle /\ LegacyIdle /\ EmbIdle /\ AlignIdle /\ DrugIdle
NextTag == GetTag /\ UNCHANGED <<tokVars, charVars, escVars, pipeVars, featVars, legVars, embVars, alignVars, drugVars>>
SpecTag == InitTag /\ [][NextTag]_vars

\* the character-level generator applied to every token
InitChar == CharInit /\ TokIdle /\ TagIdle /\ EscIdle /\ PipeIdle /\ FeatIdle /\ LegacyIdle /\ EmbIdle /\ AlignIdle /\ DrugIdle
NextChar == ExtractCharacterFeatures /\ UNCHANGED <<tokVars, tagVars, escVars, pipeVars, featVars, legVars, embVars, alignVars, drugVars>>
SpecChar == InitChar /\ [][NextChar]_vars

\* escaping, then the consumer's unescaping, of every feature string
InitEsc == EscInit /\ TokIdle /\ TagIdle /\ CharIdle /\ PipeIdle /\ FeatIdle /\ LegacyIdle /\ EmbIdle /\ AlignIdle /\ DrugIdle
NextEsc ==
    \/ Sanitize /\ UNCHANGED <<tokVars, tagVars, charVars, pipeVars, featVars, legVars, embVars, alignVars, drugVars>>
    \/ Unescape /\ UNCHANGED <<tokVars, tagVars, charVars, pipeVars, featVars, legVars, embVars, alignVars, drugVars>>
SpecEsc == InitEsc /\ [][NextEsc]_vars

\* extract_features of the modular package and of extract-features.py,
\* applied to every token sequence, lexicon pair and annotator answer
InitFeat == FeatInit /\ LegacyInit /\ TokIdle /\ TagIdle /\ CharIdle /\ EscIdle /\ PipeIdle /\ EmbIdle /\ AlignIdle /\ DrugIdle
NextFeat ==
    \/ ExtractFeatures /\ UNCHANGED <<tokVars, tagVars, charVars, escVars, pipeVars, legVars, embVars, alignVars, drugVars>>
    \/ LegacyExtractFeatures
       /\ UNCHANGED <<tokVars, tagVars, charVars, escVars, pipeVars, featVars, embVars, alignVars, drugVars>>
SpecFeat == InitFeat /\ [][NextFeat]_vars

\* extract-features.py run twice on the same lexicon files and sentence
InitLegacy == LegacyRunsInit /\ TokIdle /\ TagIdle /\ CharIdle /\ EscIdle /\ PipeIdle /\ EmbIdle /\ AlignIdle /\ DrugIdle
NextLegacy ==
    \/ LegacyExtractFeatures
       /\ UNCHANGED <<tokVars, tagVars, charVars, escVars, pipeVars, featVars, embVars, alignVars, drugVars>>
    \/ LegacyRerun /\ UNCHANGED <<tokVars, tagVars, charVars, escVars, pipeVars, featVars, embVars, alignVars, drugVars>>
SpecLegacy == InitLegacy /\ [][NextLegacy]_vars

\* main() on an input whose output the trainer reads
InitTrain ==
    /\ PipeInit /\ TokIdle /\ TagIdle /\ CharIdle /\ EscIdle /\ FeatIdle /\ LegacyIdle
    /\ EmbIdle /\ AlignIdle /\ DrugIdle
NextTrain ==
    \/ SkipSentenceFrom(TrainSentences)
       /\ UNCHANGED <<tokVars, tagVars, charVars, escVars, featVars, legVars, embVars, alignVars, drugVars>>
    \/ SentenceRaisesFrom(TrainSentences)
       /\ UNCHANGED <<tokVars, tagVars, charVars, escVars, featVars, legVars, embVars, alignVars, drugVars>>
    \/ BeginSentenceFrom(TrainSentences)
       /\ UNCHANGED <<tokVars, tagVars, charVars, escVars, featVars, legVars, embVars, alignVars, drugVars>>
    \/ WriteLine /\ UNCHANGED <<tokVars, tagVars, charVars, escVars, featVars, legVars, embVars, alignVars, drugVars>>
    \/ WriteLineFails /\ UNCHANGED <<tokVars, tagVars, charVars, escVars, featVars, legVars, embVars, alignVars, drugVars>>
    \/ EndSentence /\ UNCHANGED <<tokVars, tagVars, charVars, escVars, featVars, legVars, embVars, alignVars, drugVars>>
    \/ Complete /\ UNCHANGED <<tokVars, tagVars, charVars, escVars, featVars, legVars, embVars, alignVars, drugVars>>
SpecTrain == InitTrain /\ [][NextTrain]_vars

\* get_embedding_features applied to every token, map and dimension
InitEmb ==
    /\ EmbInit /\ TokIdle /\ TagIdle /\ CharIdle /\ EscIdle /\ PipeIdle /\ FeatIdle
    /\ LegacyIdle /\ AlignIdle /\ DrugIdle
NextEmb ==
    GetEmbeddingFeatures
    /\ UNCHANGED <<tokVars, tagVars, charVars, escVars, pipeVars, featVars, legVars, alignVars, drugVars>>
SpecEmb == InitEmb /\ [][NextEmb]_vars

\* the tags of every sentence text under every span list
InitAlign ==
    /\ AlignInit /\ TokIdle /\ TagIdle /\ CharIdle /\ EscIdle /\ PipeIdle /\ FeatIdle
    /\ LegacyIdle /\ EmbIdle /\ DrugIdle
NextAlign ==
    TagSentence
    /\ UNCHANGED <<tokVars, tagVars, charVars, escVars, pipeVars, featVars, legVars, embVars, drugVars>>
SpecAlign == InitAlign /\ [][NextAlign]_vars

\* the drug_n functions on every token, after every way of loading the lexicon
InitDrugN ==
    /\ DrugInit /\ TokIdle /\ TagIdle /\ CharIdle /\ EscIdle /\ PipeIdle /\ FeatIdle
    /\ LegacyIdle /\ EmbIdle /\ AlignIdle
NextDrugN ==
    \/ LoadDrugNLexicon
       /\ UNCHANGED <<tokVars, tagVars, charVars, escVars, pipeVars, featVars, legVars, embVars, alignVars>>
    \/ PartialMatchDrugN
       /\ UNCHANGED <<tokVars, tagVars, charVars, escVars, pipeVars, featVars, legVars, embVars, alignVars>>
    \/ ExtractDrugNFeatures
       /\ UNCHANGED <<tokVars, tagVars, charVars, escVars, pipeVars, featVars, legVars, embVars, alignVars>>
SpecDrugN == InitDrugN /\ [][NextDrugN]_vars

----------------------------------------------------------------------------
(* Claims *)

Contains(tk, sp) == tk[2] >= sp[1] /\ tk[3] <= sp[2]

\* the first-match reference of the aligner
FirstMatchTag(tk, sps) ==
    LET M == {i \in DOMAIN sps : Contains(tk, sps[i])}
    IN IF M = {} THEN "O"
       ELSE LET sp == sps[Min(M)]
            IN IF tk[2] = sp[1] THEN "B-" \o sp[3] ELSE "I-" \o sp[3]

\* C1: get_tag returns the tag of the first span in list order that matches
\* the token (B- when the starts coincide, I- otherwise), and O when no span
\* matches, also when a later span would give a B- tag or another type.
C1_FirstMatch == gpc = "done" => tag = FirstMatchTag(token, spans)

\* a state where the first-match rule decides against a later span: the token
\* is inside span 1 (I-) and begins span 2 of another type
C1_Witness ==
    /\ gpc = "done"
    /\ Len(spans) = 2
    /\ Contains(token, spans[1]) /\ token[2] # spans[1][1]
    /\ Contains(token, spans[2]) /\ token[2] = spans[2][1]
    /\ spans[1][3] # spans[2][3]
    /\ tag = "I-" \o spans[1][3]

\* C2: a B-/I- tag is only ever given on account of a span that contains the
\* token (span.start <= token.start and token.end <= span.end); a token that
\* every span excludes is tagged O.
C2_NoTagOutsideSpan ==
    gpc = "done" =>
        /\ (\A i \in DOMAIN spans : ~Contains(token, spans[i])) => tag = "O"
        /\ tag # "O" =>
             \E i \in DOMAIN spans :
                /\ Contains(token, spans[i])
                /\ tag \in {"B-" \o spans[i][3], "I-" \o spans[i][3]}

\* the second token of a multi-token entity, ending beyond the span end
C2_Witness ==
    /\ gpc = "done"
    /\ Len(spans) = 1
    /\ token[2] > spans[1][1] /\ token[2] <= spans[1][2] /\ token[3] > spans[1][2]
    /\ tag = "O"

----------------------------------------------------------------------------
(* Claims about tokenize *)

\* C4: for every text and every token tokenize returns, whatever sequence of
\* substrings of the text the word tokenizer returned,
\* 0 <= start <= end < len(text) and text[start..end] is the token's form.
C4_OffsetsExact ==
    (tpc = "done" /\ \A k \in DOMAIN wtoks : IsSubstring(wtoks[k], txt)) =>
        \A k \in DOMAIN tks :
            /\ 0 <= tks[k][2] /\ tks[k][2] <= tks[k][3] /\ tks[k][3] < Len(txt)
            /\ SubSeq(txt, tks[k][2] + 1, tks[k][3] + 1) = tks[k][1]

\* C5: in every returned token sequence start <= end for each token and the
\* start offsets strictly increase from one token to the next.
C5_StartsIncrease ==
    tpc = "done" =>
        /\ \A k \in DOMAIN tks : tks[k][2] <= tks[k][3]
        /\ \A k \in 1..(Len(tks) - 1) : tks[k][2] < tks[k + 1][2]

\* where the search for token k starts: right after the previous token's end
SearchFrom(k) == IF k = 1 THEN 0 ELSE tks[k - 1][3] + 1

OccurrencesFrom(s, t, from) == {i \in from..Len(s) : OccursAt(s, t, i)}

----------------------------------------------------------------------------
(* Claims about the output of process_file *)

InRange(tk, r) == Len(r) = 2 /\ tk[2] >= r[1] /\ tk[3] <= r[2]

\* token tk lies inside a second or later range of some entity and inside
\* no first range of any entity
OnlyInLaterRange(tk, entities) ==
    /\ \E e \in DOMAIN entities : \E p \in 2..Len(entities[e].charOffset) :
            InRange(tk, entities[e].charOffset[p])
    /\ \A e \in DOMAIN entities : ~InRange(tk, entities[e].charOffset[1])

\* the line just written is the line of token ti - 1 of cur
JustWrote == pc = "tokens" /\ ti > 0 /\ cur.wrote[ti]

\* C3: only the first range of a multi-range charOffset reaches the aligner:
\* a token lying only inside a second or later range of an entity, and
\* inside no other entity, is written with tag O.
C3_LaterRangeTaggedO ==
    (JustWrote /\ OnlyInLaterRange(cur.tokens[ti], cur.entities)) =>
        out[Len(out)][6] = "O"

\* the block of sentence sn up to its n-th token: one line per token
\* (every), or per token whose line was written, in token order
RECURSIVE BlockLines(_, _, _)
BlockLines(sn, n, every) ==
    IF n = 0 THEN <<>>
    ELSE BlockLines(sn, n - 1, every)
         \o (IF every \/ sn.wrote[n]
             THEN <<TokenLine(sn.id, sanitize(sn.tokens[n][1]), sn.tokens[n][2],
                              sn.tokens[n][3], FirstMatchTag(sn.tokens[n], sn.spans),
                              sanitize_features(sn.features[n]))>>
             ELSE <<>>)

\* the complete blocks of the first n finished sentences, each closed by one
\* blank line, in the order the sentences were processed
RECURSIVE FinishedBlocks(_, _)
FinishedBlocks(n, every) ==
    IF n = 0 THEN <<>>
    ELSE FinishedBlocks(n - 1, every)
         \o BlockLines(done[n], Len(done[n].tokens), every) \o <<BlankLine>>

\* C7 as stated: every processed sentence gets exactly one line per token, in
\* token order, then exactly one blank line, sentence after sentence.
C7_OneLinePerToken ==
    out = FinishedBlocks(Len(done), TRUE) \o BlockLines(cur, ti, TRUE)

\* C7 as amended: one line per token whose line could be written (a token
\* whose write raised is skipped with an error message), in token order, then
\* exactly one blank line, sentence after sentence.
C7_OneLinePerWrittenToken ==
    out = FinishedBlocks(Len(done), FALSE) \o BlockLines(cur, ti, FALSE)

\* two sentences finished: the first lost the line of its first token to a
\* failed write and kept the line of its second, the second kept every line;
\* each block is closed by its blank line
C7_Witness ==
    /\ Len(done) = 2
    /\ done[1].wrote = <<FALSE, TRUE>>
    /\ \A k \in DOMAIN done[2].wrote : done[2].wrote[k]
    /\ Len(out) = 2 + Len(done[2].tokens) + 1
    /\ out[1][1] = "token" /\ out[1][3] = done[1].tokens[2][1]
    /\ out[2] = BlankLine
    /\ out[3][1] = "token" /\ out[3][2] = done[2].id
    /\ out[Len(out)] = BlankLine

IsEmbeddingFeature(f) ==
    f.name \in {"emb_unavailable", "emb_OOV"} \cup {EmbName(d) : d \in 0..(EmbeddingDim - 1)}

\* C9: with an empty embedding map every token's feature record holds exactly
\* one embedding feature, the marker emb_unavailable=true.
C9_UnavailableMarker ==
    (pc # "fatal" /\ lexicon_data.word_embeddings = NoEmbeddings) =>
        \A l \in DOMAIN out :
            out[l][1] = "token" =>
                /\ Cardinality({j \in DOMAIN out[l][7] : IsEmbeddingFeature(out[l][7][j])}) = 1
                /\ \E j \in DOMAIN out[l][7] : out[l][7][j] = Feat("emb_unavailable", True)

----------------------------------------------------------------------------
(* Claims about the escaping and the character-level generator *)

\* C8: for every feature string over {tab, newline, backslash, n, t} that
\* contains a tab or a newline, escaping it and then applying the inverse
\* mapping gives back the original string.
C8_RoundTrip ==
    (epc = "done" /\ \E k \in DOMAIN fstr : fstr[k] \in {"\t", "\n"}) =>
        unescaped = fstr

\* the category the priority order ALLCAPS > Title > LOWER > MIXED > NOCASE
\* gives a token
CasingByPriority(tk) ==
    IF isupper(tk) THEN <<"ALLCAPS">>
    ELSE IF istitle(tk) THEN <<"Title">>
    ELSE IF islower(tk) THEN <<"LOWER">>
    ELSE IF \E i \in DOMAIN tk : char_isupper(tk[i]) THEN <<"MIXED">>
    ELSE <<"NOCASE">>

\* C10: the character-level generator emits exactly one casing feature, and
\* its category is the first of ALLCAPS, Title, LOWER, MIXED, NOCASE whose
\* test the token passes.
C10_OneCasingByPriority ==
    cpc = "done" =>
        /\ Cardinality({j \in DOMAIN tokenFeatures : tokenFeatures[j].name = "casing"}) = 1
        /\ \A j \in DOMAIN tokenFeatures :
              tokenFeatures[j].name = "casing" =>
                  tokenFeatures[j] = Feat("casing", CasingByPriority(ctok))

----------------------------------------------------------------------------
(* Claims about failures and about the resource bundle *)

\* C12: a failure while processing one sentence (a malformed charOffset, for
\* example) skips only that sentence: the run never aborts on it, so that the
\* later sentences are still processed.
C12_SentenceFailureDoesNotAbort == pc # "failed"

LexiconFileMissing == ~lexfiles.drugbank.exists \/ ~lexfiles.hsdb.exists

\* C13: when DrugBank.txt or HSDB.txt is missing or unreadable the run has
\* aborted at startup: no sentence is ever taken and no token line and no
\* separator line is ever written.
C13_MissingLexiconIsFatal ==
    LexiconFileMissing => (pc = "fatal" /\ nread = 0 /\ out = <<>> /\ done = <<>>)

\* HSDB.txt is missing, DrugBank.txt is there: the run has aborted
C13_Witness ==
    /\ lexfiles.drugbank.exists /\ ~lexfiles.hsdb.exists
    /\ pc = "fatal" /\ out = <<>>

\* C14: taking a sentence whose id is empty or the escaped-newline placeholder
\* writes nothing and starts no block, and the sentence taken after it, when
\* its id is valid and its entities are well formed, starts its block as usual.
C14_InvalidIdSkipped ==
    [][/\ (nread' = nread + 1 /\ ~ValidSid(sid')) =>
            (out' = out /\ done' = done /\ cur' = NoSentence /\ pc' = "sentence")
       /\ (nread' = nread + 1 /\ ~ValidSid(sid) /\ ValidSid(sid') /\ pc' # "failed") =>
            (pc' = "tokens" /\ cur'.id = sid' /\ out' = out)]_vars

\* the first sentence was skipped for its id, the second has been written in
\* full: its token lines and its blank line are the whole output
C14_Witness ==
    /\ nread = 2 /\ Len(done) = 1 /\ pc = "sentence" /\ sid = "s1"
    /\ Len(done[1].tokens) = 2 /\ done[1].wrote = <<TRUE, TRUE>>
    /\ Len(out) = 3 /\ out[1][2] = "s1" /\ out[2][2] = "s1" /\ out[3] = BlankLine

\* C15: once built, the resource bundle stays as load_resources built it from
\* the files found at startup, before and after every sentence of the run.
C15_BundleUnchanged ==
    pc # "fatal" =>
        lexicon_data = load_resources(lexfiles.drugbank.lines, lexfiles.hsdb.lines,
                                      lexfiles.embeddings)

\* two sentences have been extracted and written, the bundle is as built
C15_Witness ==
    /\ Len(done) = 2 /\ pc = "sentence"
    /\ \A n \in 1..2 : Len(done[n].features) = Len(done[n].tokens) /\ done[n].tokens # <<>>
    /\ lexicon_data.drugbank_lexicon # {} /\ lexicon_data.short_drugs_db # <<>>
    /\ lexicon_data = load_resources(lexfiles.drugbank.lines, lexfiles.hsdb.lines,
                                     lexfiles.embeddings)

----------------------------------------------------------------------------
(* Claims about extract_features *)

HasFeat(fs, f) == \E j \in DOMAIN fs : fs[j] = f
HasName(fs, name) == \E j \in DOMAIN fs : fs[j].name = name
CountName(fs, name) == Cardinality({j \in DOMAIN fs : fs[j].name = name})

\* C11: two extraction calls for the same token sequence, the same lexicon
\* files and the same configuration return the same features in the same
\* order for every token, also when the calls belong to two runs.
C11_SameFeaturesEveryRun ==
    (run = 2 /\ lpc = "done") => legacy_result = previous_result

\* the un-memoized scan: some short entry contains the candidate or is
\* contained in it
UnmemoizedScan(candidate, entries) ==
    \E d \in entries : in_str(d, candidate) \/ in_str(candidate, d)

ListEntries(list) == {list[i] : i \in DOMAIN list}

\* the normalized token partial_match_morphological looks up
MorphNormalized(tk) ==
    LET b0 == remove_all(rstrip(lower(tk), TrailingPunct), <<"'", "s">>)
        b1 == IF EndsWith(b0, <<"s">>) THEN SubSeq(b0, 1, Len(b0) - 1) ELSE b0
    IN IF EndsWith(b1, <<"e", "s">>) THEN SubSeq(b1, 1, Len(b1) - 2) ELSE b1

\* C16: in both pipelines the partial-match feature of a token for a lexicon
\* is there exactly when the un-memoized scan of that lexicon's short-entry
\* list finds the normalized token, whatever was looked up before and
\* whatever the other lexicon's answer is.
C16_MemoizationTransparent ==
    /\ fpc = "done" =>
          \A k \in DOMAIN ftokens :
             /\ HasName(all_features[k], "partialMatchDB")
                  <=> UnmemoizedScan(MorphNormalized(ftokens[k][1]),
                                     ListEntries(fbundle.short_drugs_db))
             /\ HasName(all_features[k], "partialMatchHSDB")
                  <=> UnmemoizedScan(MorphNormalized(ftokens[k][1]),
                                     ListEntries(fbundle.short_drugs_hsdb))
    /\ lpc = "done" =>
          \A k \in DOMAIN ftokens :
             /\ HasName(legacy_result[k], "partialMatchDrugBank")
                  <=> UnmemoizedScan(lower(ftokens[k][1]), legacy_globals.short_drugs_db)
             /\ HasName(legacy_result[k], "partialMatchHSDB")
                  <=> UnmemoizedScan(lower(ftokens[k][1]), legacy_globals.short_drugs_hsdb)

\* the same surface is looked up twice in one call (the second lookup is
\* answered from the cache) and the two lexicons answer differently
C16_Witness ==
    /\ lpc = "done" /\ fpc = "done"
    /\ Len(ftokens) >= 2 /\ lower(ftokens[1][1]) = lower(ftokens[2][1])
    /\ \A k \in 1..2 :
          /\ HasName(legacy_result[k], "partialMatchHSDB")
          /\ ~HasName(legacy_result[k], "partialMatchDrugBank")
          /\ HasName(all_features[k], "partialMatchHSDB")
          /\ ~HasName(all_features[k], "partialMatchDB")

\* the tag the annotator gave token k (counted from 1), UNK when it gave none
PosReference(k) ==
    IF ~fanswer.raised /\ k <= Len(fanswer.tagged) /\ fanswer.tagged[k][2] # ""
    THEN fanswer.tagged[k][2]
    ELSE "UNK"

\* C17: every token's feature record holds exactly one pos feature: the
\* annotator's tag at the token's own index when there is a non-empty one,
\* UNK otherwise (missing tail positions, or the annotator raised), and the
\* sentence is extracted in every case.
C17_OnePosPerToken ==
    fpc = "done" =>
        /\ Len(all_features) = Len(ftokens)
        /\ \A k \in DOMAIN ftokens :
              /\ CountName(all_features[k], "pos") = 1
              /\ HasFeat(all_features[k], Feat("pos", <<PosReference(k)>>))

\* the annotator returned one pair fewer than there are tokens: the first
\* token keeps its tag, the last gets UNK
C17_Witness ==
    /\ fpc = "done" /\ ~fanswer.raised
    /\ Len(ftokens) = 3 /\ Len(fanswer.tagged) = 2
    /\ HasFeat(all_features[1], Feat("pos", <<"NN">>))
    /\ HasFeat(all_features[3], Feat("pos", <<"UNK">>))

PrevNames == {"formPrev", "formLowerPrev", "casingPrev", "bigram"}
Prev2Names == {"formPrev2", "trigram"}
NextNames == {"formNext", "formLowerNext", "casingNext"}

\* the context features of the token at 0-based position k of n tokens
ContextShape(fs, k, n) ==
    /\ HasName(fs, "BoS") <=> k = 0
    /\ \A nm \in PrevNames : HasName(fs, nm) <=> k > 0
    /\ \A nm \in Prev2Names : HasName(fs, nm) <=> k >= 2
    /\ HasName(fs, "EoS") <=> k = n - 1
    /\ \A nm \in NextNames : HasName(fs, nm) <=> k < n - 1
    /\ HasName(fs, "formNext2") <=> k + 2 <= n - 1

\* C18: in both pipelines the first token has BoS and no previous-neighbour
\* feature, the last has EoS and no next-neighbour feature, the others have
\* neither marker; formPrev2 and trigram are there exactly from position 2
\* on, formNext2 exactly when two tokens follow.
C18_BoundaryMarkers ==
    /\ fpc = "done" =>
          \A k \in DOMAIN ftokens : ContextShape(all_features[k], k - 1, Len(ftokens))
    /\ lpc = "done" =>
          \A k \in DOMAIN ftokens : ContextShape(legacy_result[k], k - 1, Len(ftokens))

\* a one-token sentence with both markers, in both pipelines
C18_Witness ==
    /\ fpc = "done" /\ lpc = "done" /\ Len(ftokens) = 1
    /\ HasName(all_features[1], "BoS") /\ HasName(all_features[1], "EoS")
    /\ HasName(legacy_result[1], "BoS") /\ HasName(legacy_result[1], "EoS")

\* the normalization of the exact lookup: lower-case, no trailing
\* punctuation, no trailing possessive 's, plural es or plural s
ExactNormalized(tk) ==
    LET t0 == rstrip(lower(tk), TrailingPunct)
    IN IF EndsWith(t0, <<"'", "s">>) THEN SubSeq(t0, 1, Len(t0) - 2)
       ELSE IF EndsWith(t0, <<"e", "s">>) THEN SubSeq(t0, 1, Len(t0) - 2)
       ELSE IF EndsWith(t0, <<"s">>) THEN SubSeq(t0, 1, Len(t0) - 1)
       ELSE t0

\* C19: exactInDrugBank (exactInHSDB) is emitted exactly when the normalized
\* token is an entry of that lexicon, and a token that is itself an entry
\* matches.
C19_ExactAfterNormalization ==
    fpc = "done" =>
        \A k \in DOMAIN ftokens :
           /\ HasName(all_features[k], "exactInDrugBank")
                <=> ExactNormalized(ftokens[k][1]) \in fbundle.drugbank_lexicon
           /\ HasName(all_features[k], "exactInHSDB")
                <=> ExactNormalized(ftokens[k][1]) \in fbundle.hsdb_lexicon
           /\ lower(ftokens[k][1]) \in fbundle.drugbank_lexicon
                => HasName(all_features[k], "exactInDrugBank")
           /\ lower(ftokens[k][1]) \in fbundle.hsdb_lexicon
                => HasName(all_features[k], "exactInHSDB")

\* the lower-cased forms of tokens i .. j (counted from 1) joined by spaces
RECURSIVE Joined(_, _)
Joined(i, j) ==
    IF i = j THEN lower(ftokens[i][1])
    ELSE lower(ftokens[i][1]) \o <<" ">> \o Joined(i + 1, j)

ForwardWindowIn(k, L) ==
    \/ k + 1 <= Len(ftokens) /\ Joined(k, k + 1) \in L
    \/ k + 2 <= Len(ftokens) /\ Joined(k, k + 2) \in L

BackwardWindowIn(k, L) == k >= 3 /\ Joined(k - 2, k - 1) \in L

\* C20: windowIn<L> is emitted exactly when the two-token or the three-token
\* window starting at the token is an entry of L, backWindowIn<L> exactly
\* when the two preceding tokens joined are an entry of L.
C20_WindowFeatures ==
    fpc = "done" =>
        \A k \in DOMAIN ftokens :
           /\ HasName(all_features[k], "windowInDrugBank")
                <=> ForwardWindowIn(k, fbundle.drugbank_lexicon)
           /\ HasName(all_features[k], "windowInHSDB")
                <=> ForwardWindowIn(k, fbundle.hsdb_lexicon)
           /\ HasName(all_features[k], "backWindowInDrugBank")
                <=> BackwardWindowIn(k, fbundle.drugbank_lexicon)
           /\ HasName(all_features[k], "backWindowInHSDB")
                <=> BackwardWindowIn(k, fbundle.hsdb_lexicon)

----------------------------------------------------------------------------
(* Claims about get_embedding_features *)

\* floor((value + 1.0) * bins / 2.0) for a value in hundredths
FloorBin(h, bins) == ((h + 100) * bins) \div 200
Clamp(b, lo, hi) == IF b < lo THEN lo ELSE IF b > hi THEN hi ELSE b

\* C23: for a token whose lower-cased form is in the map, the call returns
\* one feature emb_<i>=<bin> for each of the first min(dimension, length)
\* components, in index order, every bin being an integer of 0..bins-1 and,
\* for a finite value, the clamped floor; for a token absent from the map it
\* returns the single marker emb_OOV=true.
C23_BinsOfEveryVector ==
    emb_pc = "done" =>
        /\ ~emb_result.raised
        /\ IF lower(emb_token) \in DOMAIN emb_map
           THEN LET emb == emb_map[lower(emb_token)]
                    n == IF emb_dimension < Len(emb) THEN emb_dimension ELSE Len(emb)
                    fs == emb_result.features
                IN /\ Len(fs) = n
                   /\ \A d \in 1..n :
                         /\ fs[d].name = EmbName(d - 1)
                         /\ fs[d].eq
                         /\ Len(fs[d].value) = 1
                         /\ fs[d].value[1] \in 0..(EmbeddingBins - 1)
                         /\ emb[d].kind = "finite" =>
                                fs[d].value[1] = Clamp(FloorBin(emb[d].hundredths, EmbeddingBins),
                                                       0, EmbeddingBins - 1)
           ELSE emb_result.features = <<Feat("emb_OOV", True)>>

----------------------------------------------------------------------------
(* Claims about the tags of a sentence *)

IsI(t) == t \in {"I-" \o ty : ty \in EntityTypes}
IsB(t) == t \in {"B-" \o ty : ty \in EntityTypes}
TypeOf(t) == CHOOSE ty \in EntityTypes : t \in {"B-" \o ty, "I-" \o ty}

\* C27: in the tags of a sentence, a token tagged I-<type> is immediately
\* preceded by a token tagged B-<type> or I-<type>, and with a single span at
\* most one token is tagged B.
C27_WellFormedBIO ==
    align_pc = "done" =>
        /\ \A k \in DOMAIN align_tags :
              IsI(align_tags[k]) =>
                  /\ k > 1
                  /\ align_tags[k - 1] \in {"B-" \o TypeOf(align_tags[k]),
                                            "I-" \o TypeOf(align_tags[k])}
        /\ Len(align_spans) = 1 =>
              Cardinality({k \in DOMAIN align_tags : IsB(align_tags[k])}) <= 1

----------------------------------------------------------------------------
(* Claims about the short-entry subsets *)

Qualifying(lexicon) == {d \in lexicon : ShortMin < Len(d) /\ Len(d) < ShortMax}

\* the entries among the first sample_size qualifying ones in sorted order
FirstSorted(lexicon, sample_size) ==
    {d \in Qualifying(lexicon) :
        Cardinality({f \in Qualifying(lexicon) : str_less(f, d)}) < sample_size}

\* C24: a short-entry subset holds only entries longer than 4 and shorter
\* than 10 characters, at most the sample size of them, and is the first
\* sample-size qualifying entries of the lexicon in sorted order, whatever
\* the order in which the set is iterated.
C24_SampleIsSortedPrefix ==
    lpc # "idle" =>
        /\ legacy_globals.short_drugs_db \subseteq Qualifying(legacy_globals.drugbank_lexicon)
        /\ legacy_globals.short_drugs_hsdb \subseteq Qualifying(legacy_globals.hsdb_lexicon)
        /\ Cardinality(legacy_globals.short_drugs_db) <= SampleSizeDB
        /\ Cardinality(legacy_globals.short_drugs_hsdb) <= SampleSizeHSDB
        /\ legacy_globals.short_drugs_db =
               FirstSorted(legacy_globals.drugbank_lexicon, SampleSizeDB)
        /\ legacy_globals.short_drugs_hsdb =
               FirstSorted(legacy_globals.hsdb_lexicon, SampleSizeHSDB)

----------------------------------------------------------------------------
(* Claims about the feature lists and the lines of a sentence *)

\* the sentence in hand has one feature list per token, the k-th one
\* starting with the form of token k
OneFeatureListPerToken ==
    pc = "tokens" =>
        /\ Len(cur.features) = Len(cur.tokens)
        /\ \A k \in DOMAIN cur.tokens :
              /\ cur.features[k] # <<>>
              /\ cur.features[k][1] = Feat("form", cur.tokens[k][1])

\* the loop passes a token with a non-empty form
PassesToken == pc = "tokens" /\ ti' = ti + 1 /\ cur.tokens[ti + 1][1] # <<>>

\* C25 as stated: extract_features returns one feature list per token, the
\* k-th for token k, also for the empty sentence and when POS tagging fails,
\* and every token with a non-empty form gets exactly one output line.
C25_EveryTokenGetsALine ==
    /\ []OneFeatureListPerToken
    /\ [][PassesToken => Len(out') = Len(out) + 1]_vars

\* C25 as amended: extract_features returns one feature list per token, the
\* k-th for token k, also for the empty sentence and when POS tagging fails;
\* the loop never finds the feature list of a token missing, and a token with
\* a non-empty form gets exactly one output line, carrying its own feature
\* list, unless the write of that line raises.
C25_OneFeatureListPerToken ==
    /\ []OneFeatureListPerToken
    /\ [](pc = "tokens" /\ ti < Len(cur.tokens) => ti + 1 <= Len(cur.features))
    /\ [][(PassesToken /\ WriteLine) =>
              /\ Len(out') = Len(out) + 1
              /\ out'[Len(out')][7] = sanitize_features(cur.features[ti + 1])]_vars

\* two sentences finished: for the first, of two tokens, POS tagging failed
\* and both lines were written; the second is the empty sentence
C25_Witness ==
    /\ Len(done) = 2
    /\ Len(done[1].tokens) = 2 /\ Len(done[1].features) = 2
    /\ HasFeat(done[1].features[2], Feat("pos", <<"UNK">>))
    /\ done[1].wrote = <<TRUE, TRUE>>
    /\ done[2].tokens = <<>> /\ done[2].features = <<>>
    /\ Len(out) = 4

----------------------------------------------------------------------------
(* Claims about the trainer's reading of the output *)

\* the tags and the escaped feature lists of the written tokens of a
\* sentence, in token order, as the text of the fields that carry them
RECURSIVE WrittenLabels(_, _)
WrittenLabels(sn, n) ==
    IF n = 0 THEN <<>>
    ELSE WrittenLabels(sn, n - 1)
         \o (IF sn.wrote[n] THEN <<<<Str(FirstMatchTag(sn.tokens[n], sn.spans))>>>> ELSE <<>>)

RECURSIVE WrittenItems(_, _)
WrittenItems(sn, n) ==
    IF n = 0 THEN <<>>
    ELSE WrittenItems(sn, n - 1)
         \o (IF sn.wrote[n]
             THEN <<[j \in DOMAIN sn.features[n] |->
                        feature_text(sanitize_features(sn.features[n])[j])]>>
             ELSE <<>>)

\* C26: between sentences and at the end of the run, reading the output
\* with instances() yields exactly one (items, labels) pair per processed
\* sentence, in output order: the labels are the tags of the sentence's
\* written tokens in token order, the items their escaped feature lists, and
\* both have the same length.
C26_OnePairPerSentence ==
    pc \in {"sentence", "complete"} =>
        LET read == instances(output_text(out))
        IN /\ ~read.raised
           /\ Len(read.pairs) = Len(done)
           /\ \A n \in DOMAIN done :
                 /\ Len(read.pairs[n].xseq) = Len(read.pairs[n].yseq)
                 /\ read.pairs[n].yseq = WrittenLabels(done[n], Len(done[n].tokens))
                 /\ read.pairs[n].xseq = WrittenItems(done[n], Len(done[n].tokens))

----------------------------------------------------------------------------
(* Claims about drug_n_features.py *)

\* a call of load_drug_n_lexicon made while a lexicon is cached
LaterLoad == ~_drug_n_lexicon.is_none /\ drug_calls' = drug_calls + 1

\* C28: load_drug_n_lexicon is load-once.  Whenever a lexicon is cached, the
\* short-entry subset is cached too and is a subset of it; and a call made
\* while a lexicon is cached returns that lexicon and leaves the cached
\* lexicon, the short-entry subset and both indexes as they were, whatever is
\* found at the path it is given.
C28_LoadOnce ==
    /\ [](~_drug_n_lexicon.is_none =>
              /\ ~_short_drug_n_lexicon.is_none
              /\ _short_drug_n_lexicon.v \subseteq _drug_n_lexicon.v)
    /\ [][LaterLoad =>
              /\ drug_returned' = Some(_drug_n_lexicon.v)
              /\ _drug_n_lexicon' = _drug_n_lexicon
              /\ _short_drug_n_lexicon' = _short_drug_n_lexicon
              /\ _prefix_index' = _prefix_index
              /\ _suffix_index' = _suffix_index]_vars

\* a second call was made after a first call that read a file and built the
\* indexes, and it returned the cached lexicon, which holds an entry of the file
C28_Witness ==
    /\ drug_calls > 1 /\ drug_pc = "load"
    /\ ~_prefix_index.is_none
    /\ drug_returned = Some(_drug_n_lexicon.v)
    /\ <<"a", "a", "a", "z">> \in _drug_n_lexicon.v
    /\ <<"a", "a", "a", "z">> \in _short_drug_n_lexicon.v

\* the closed list of known-hard tokens
KnownHardTokens ==
    {<<"m", "p", "t", "p">>, <<"c", "p">>, <<"c", "p", "k">>, <<"f", "b", "s">>, <<"z", "e">>,
     <<"o", "x", "y", "g", "e", "n">>, <<"h", "e", "r", "o", "i", "n">>,
     <<"s", "p", "a", "r", "i", "n", "e">>, <<"b", "u", "f", "o", "r", "i", "n">>,
     <<"c", "y", "t", "o", "c", "h", "a", "l", "a", "s", "i", "n">>}

\* C22: for every token that is, in any letter case, one of the known-hard
\* tokens, extract_drug_n_features emits drugNKnownEntity=true, whatever the
\* lexicon that was loaded and whether or not a pattern matches.
C22_KnownHardFlagged ==
    (drug_pc = "features" /\ lower(drug_token) \in KnownHardTokens)
        => HasFeat(drug_result.features, Feat("drugNKnownEntity", True))

\* the token as partial_match_drug_n compares it: lowercased, with the
\* punctuation at both ends removed
DrugNNormalized(tk) == strip(lower(tk), TrailingPunct)

\* the entries the prefix (suffix) index holds under the first (last) 3
\* characters of t: the short entries that share them, once the indexes exist
PrefixCandidates(t) ==
    IF _prefix_index.is_none THEN {}
    ELSE {d \in _short_drug_n_lexicon.v : Len(d) >= 3 /\ Prefix(d, 3) = Prefix(t, 3)}
SuffixCandidates(t) ==
    IF _suffix_index.is_none THEN {}
    ELSE {d \in _short_drug_n_lexicon.v : Len(d) >= 3 /\ Suffix(d, 3) = Suffix(t, 3)}

CloseInLength(d, t) == Len(d) - Len(t) \in -3..3

\* C21: partial_match_drug_n returns True exactly when the normalized token
\* has at least 3 characters and it is an entry of the lexicon, or one of the
\* patterns matches the token, or the token is capitalized, holds a lowercase
\* letter, is longer than 3 and holds a blank or a hyphen, or an index
\* candidate that is a prefix (suffix) of the normalized token, or has it as
\* prefix (suffix), differs from it in length by at most 3.  A candidate that
\* differs by more than 3 does not make the token match.
C21_PartialMatchIff ==
    drug_pc = "match" =>
        LET t == DrugNNormalized(drug_token)
        IN drug_result.matched <=>
               /\ Len(t) >= 3
               /\ \/ t \in drug_returned.v
                  \/ \E p \in 0..7 : drug_n_pattern_search(p, drug_token)
                  \/ capitalized_multiword(drug_token)
                  \/ \E d \in PrefixCandidates(t) :
                         /\ CloseInLength(d, t)
                         /\ OccursAt(t, d, 0) \/ OccursAt(d, t, 0)
                  \/ \E d \in SuffixCandidates(t) :
                         /\ CloseInLength(d, t)
                         /\ EndsWith(t, d) \/ EndsWith(d, t)

\* the token aaa matched through the prefix index alone: the lexicon read
\* from the file holds aaaz, aaa is no entry, no pattern matches it and it is
\* not capitalized
C21_Witness ==
    /\ drug_pc = "match" /\ drug_token = <<"a", "a", "a">>
    /\ drug_result.matched
    /\ ~_prefix_index.is_none
    /\ <<"a", "a", "a", "z">> \in _prefix_index.v[<<"a", "a", "a">>]
    /\ drug_token \notin drug_returned.v
    /\ ~\E p \in 0..7 : drug_n_pattern_search(p, drug_token)

====
